---- MODULE Spec2Model ----
(***************************************************************************)
(* The employee-record server of src/empire: the record file codec, the   *)
(* in-memory record engine, the per-connection state machine and its      *)
(* handlers.                                                               *)
(*                                                                         *)
(* Representation.                                                         *)
(*  - An octet is an integer 0..255; a C string is the sequence of its     *)
(*    octets before the terminating NUL.                                   *)
(*  - A uint32_t is a pair <<hi, lo>> of 16-bit halves (value hi*65536+lo):*)
(*    TLC's integers are 32-bit signed, the program's are not.             *)
(*  - A char[256] field is the sequence of its octets up to the last       *)
(*    non-NUL one (every octet after it is NUL); PadTo gives the array.    *)
(*  - employees is the allocated block of struct employee_t slots, held    *)
(*    as [fill, rest]: fill leading slots that each hold FillerRecord,     *)
(*    then the slots of rest.  rest never starts with FillerRecord, so two *)
(*    blocks are equal exactly when their slot sequences are.  A store of  *)
(*    65535 records is a state of the program, and this holds it.          *)
(*    The record list is the block's first dbhdr.count slots.              *)
(***************************************************************************)
EXTENDS Integers, Sequences, FiniteSets, TLC

VARIABLES
    dbhdr,        \* struct dbheader_t of main(): magic, version, count, filesize
    employees,    \* the block *employees_ptr points to (<<>> is NULL)
    inputs,       \* the add-strings the environment may submit
    nOps,         \* operations applied so far (bounded by MaxOps)
    refStack,     \* history: the reference stack of the record list
    lastOp,       \* history: the last engine operation and its outcome
    file,         \* the octets of the database file
    exists,       \* the path names a file (open without O_CREAT finds it)
    hole,         \* the octets of file are followed by hole * 2^32 zero octets
    pc,           \* where main() is: "run", "saved", "opened", "loaded", "failed"
    saved,        \* history: what output_file was given, the file's length before
    clientStates, \* clientstate_t clientStates[MAX_CLIENTS]
    net,          \* per accepted descriptor: the peer's stream, what was sent, history
    backlog,      \* connections waiting in the listen queue (their scripts)
    server,       \* the server process: "running" or "killed" (by a signal)
    server_should_exit, \* the flag handle_sigint sets
    loop,         \* poll_loop: where it is, n_events, the revents of fds, the slot i
    errOut,       \* history: what the process wrote to stderr, by whom
    outputs,      \* history: the calls of output_file after poll_loop, per run
    exitStatus    \* <<what main() returned>>, <<>> while it runs

engineVars == <<dbhdr, employees>>
engineHist == <<inputs, nOps, refStack, lastOp>>
fileVars == <<file, exists, hole, pc, saved>>
connVars == <<clientStates, net, backlog, server>>
mainVars == <<server_should_exit, loop, errOut, outputs, exitStatus>>
vars == <<engineVars, engineHist, fileVars, connVars, mainVars>>

\* main() is not in server mode: no handler is installed, poll_loop is not entered
NoServer ==
    /\ server_should_exit = 0
    /\ loop = [at |-> "off"]
    /\ errOut = <<>>
    /\ outputs = <<>>
    /\ exitStatus = <<>>

----------------------------------------------------------------------------
(* Program constants *)

STATUS_ERROR == -1
STATUS_SUCCESS == 0
PROTO_VER == 100
HEADER_MAGIC == <<19532, 16708>>          \* 0x4c4c4144
NAME_SIZE == 256                          \* sizeof(employee_t.name), .address
UINT16_MOD == 65536                       \* uint16_t arithmetic is modulo 2^16
UINT16_MAX == 65535                       \* the largest uint16_t count
DASH == 45                                \* '-'

HDR_SIZE == 12                            \* sizeof(struct dbheader_t), packed
EMP_SIZE == 516                           \* sizeof(struct employee_t), packed

(* The build: byte order of the host (x86-64 and AArch64 Linux are little  *)
(* endian).                                                                *)
HostLittleEndian == TRUE

(* Bounds of the model *)
MaxOps == 3
MaxRecords == 2
MaxMsgs == 3         \* messages in a peer's script
HdrCut == 3          \* a read may end this many octets into a message
MaxSendFail == 3     \* which send of one handler call may fail: the 1st..3rd

----------------------------------------------------------------------------
(* Octets, integers of fixed width *)

Min(a, b) == IF a < b THEN a ELSE b

U32(n) == <<n \div 65536, n % 65536>>     \* for 0 <= n < 2^31

ZeroRun == [i \in 1..4096 |-> 0]
Zeros(n) == IF n <= Len(ZeroRun) THEN SubSeq(ZeroRun, 1, n) ELSE [i \in 1..n |-> 0]
PadTo(f, n) == f \o Zeros(n - Len(f))

RECURSIVE LastNonZero(_, _, _)
\* the largest index in lo..hi of a non-zero octet of a, lo - 1 if there is none
LastNonZero(a, lo, hi) ==
    IF lo > hi THEN lo - 1
    ELSE IF lo = hi THEN (IF a[lo] # 0 THEN lo ELSE lo - 1)
    ELSE LET mid == (lo + hi) \div 2
         IN  IF SubSeq(a, mid + 1, hi) = Zeros(hi - mid)
             THEN LastNonZero(a, lo, mid)
             ELSE LastNonZero(a, mid + 1, hi)
\* a char array as the field it holds: its octets up to the last non-NUL one
Trim(a) == SubSeq(a, 1, LastNonZero(a, 1, Len(a)))

(* Byte order: htons, htonl, ntohs, ntohl, and a scalar's octets in memory *)
Bswap16(v) == (v % 256) * 256 + (v \div 256)
Bswap32(w) == <<Bswap16(w[2]), Bswap16(w[1])>>
Htons(v) == IF HostLittleEndian THEN Bswap16(v) ELSE v
Ntohs(v) == IF HostLittleEndian THEN Bswap16(v) ELSE v
Htonl(w) == IF HostLittleEndian THEN Bswap32(w) ELSE w
Ntohl(w) == IF HostLittleEndian THEN Bswap32(w) ELSE w
Mem16(v) == IF HostLittleEndian THEN <<v % 256, v \div 256>>
            ELSE <<v \div 256, v % 256>>
Load16(b) == IF HostLittleEndian THEN b[1] + 256 * b[2] ELSE 256 * b[1] + b[2]
Mem32(w) == IF HostLittleEndian THEN Mem16(w[2]) \o Mem16(w[1])
            ELSE Mem16(w[1]) \o Mem16(w[2])
Load32(b) == IF HostLittleEndian
             THEN <<Load16(SubSeq(b, 3, 4)), Load16(SubSeq(b, 1, 2))>>
             ELSE <<Load16(SubSeq(b, 1, 2)), Load16(SubSeq(b, 3, 4))>>

IsDigit(c) == c >= 48 /\ c <= 57
IsSpace(c) == c = 32 \/ (c >= 9 /\ c <= 13)

----------------------------------------------------------------------------
(* strtok(s, "-") as add_employee calls it.  pos is strtok's saved        *)
(* pointer (an index into s, Len(s)+1 at the terminating NUL).  The result *)
(* is [tok, next]: tok = <<>> stands for NULL (a token is never empty).    *)

Strtok(s, pos) ==
    LET n == Len(s)
        rest == {i \in pos..n : s[i] # DASH}
    IN  IF rest = {}
        THEN [tok |-> <<>>, next |-> n + 1]
        ELSE LET start == CHOOSE i \in pos..n :
                              s[i] # DASH /\ \A j \in pos..(i-1) : s[j] = DASH
                 end == IF \E i \in start..n : s[i] = DASH
                        THEN CHOOSE i \in start..n :
                                 s[i] = DASH /\ \A j \in start..(i-1) : s[j] # DASH
                        ELSE n + 1
             IN  [tok |-> SubSeq(s, start, end - 1),
                  next |-> IF end <= n THEN end + 1 ELSE n + 1]

(* strncpy(dst, src, sizeof dst - 1); dst[sizeof dst - 1] = '\0' *)
CopyField(src) == SubSeq(src, 1, Min(Len(src), NAME_SIZE - 1))

----------------------------------------------------------------------------
(* strtol(s, &end, 10) on a 64-bit long, in four 16-bit limbs (least       *)
(* significant first).  The result is [val, end, erange, neg]: val the     *)
(* limbs of |value|, end the index of the first unparsed octet.            *)

ZeroLimbs == <<0, 0, 0, 0>>

RECURSIVE MulAdd(_, _, _)
\* limbs*10 + carry, as [limbs, over]: over = the product left 64 bits
MulAdd(limbs, i, carry) ==
    IF i > 4 THEN [limbs |-> limbs, over |-> carry > 0]
    ELSE LET v == limbs[i] * 10 + carry
         IN  MulAdd([limbs EXCEPT ![i] = v % 65536], i + 1, v \div 65536)

RECURSIVE Digits(_, _, _, _)
Digits(s, i, acc, over) ==
    IF i > Len(s) \/ ~IsDigit(s[i]) THEN [val |-> acc, end |-> i, over |-> over]
    ELSE LET r == MulAdd(acc, 1, s[i] - 48)
         IN  IF r.over \/ r.limbs[4] >= 32768
             THEN Digits(s, i + 1, r.limbs, TRUE)
             ELSE Digits(s, i + 1, r.limbs, over)

RECURSIVE SkipSpace(_, _)
SkipSpace(s, i) == IF i <= Len(s) /\ IsSpace(s[i]) THEN SkipSpace(s, i + 1) ELSE i

Strtol(s) ==
    LET i0 == SkipSpace(s, 1)
        signed == i0 <= Len(s) /\ (s[i0] = 43 \/ s[i0] = 45)
        i1 == IF signed THEN i0 + 1 ELSE i0
        d == Digits(s, i1, ZeroLimbs, FALSE)
    IN  IF d.end = i1
        THEN [val |-> ZeroLimbs, end |-> 1, erange |-> FALSE, neg |-> FALSE]
        ELSE [val |-> d.val, end |-> d.end, erange |-> d.over,
              neg |-> signed /\ s[i0] = 45]

----------------------------------------------------------------------------
(* The record engine *)

UninitHours == <<-1, -1>>       \* an hours field no code has written yet
UninitSlot == [name |-> <<>>, address |-> <<>>, hours |-> UninitHours]

(* Blocks of slots *)
FillerRecord == [name |-> <<65>>, address |-> <<66>>, hours |-> <<0, 1>>]
NullBlock == [fill |-> 0, rest |-> <<>>]
BlockLen(b) == b.fill + Len(b.rest)
Slot(b, i) == IF i <= b.fill THEN FillerRecord ELSE b.rest[i - b.fill]

\* the block of the slots q, after b.fill filler slots
Norm(fill, q) ==
    LET k == IF \A i \in 1..Len(q) : q[i] = FillerRecord THEN Len(q)
             ELSE (CHOOSE i \in 1..Len(q) :
                      q[i] # FillerRecord /\ \A j \in 1..(i-1) : q[j] = FillerRecord) - 1
    IN  [fill |-> fill + k, rest |-> SubSeq(q, k + 1, Len(q))]

\* the first n slots of b (n <= BlockLen(b))
Take(b, n) ==
    IF n <= b.fill THEN [fill |-> n, rest |-> <<>>]
    ELSE [fill |-> b.fill, rest |-> SubSeq(b.rest, 1, n - b.fill)]

\* b with slot i (i <= BlockLen(b)) holding r
SetSlot(b, i, r) ==
    IF i <= b.fill
    THEN Norm(i - 1, <<r>> \o [j \in 1..(b.fill - i) |-> FillerRecord] \o b.rest)
    ELSE Norm(b.fill, [b.rest EXCEPT ![i - b.fill] = r])

\* a realloc that gives a block of n slots and copies nothing into it
ReallocFresh(b, n) == Norm(0, [i \in 1..n |-> UninitSlot])
(* realloc(block, n * sizeof(struct employee_t)) that succeeds *)
Realloc(b, n) ==
    IF n <= BlockLen(b) THEN Take(b, n)
    ELSE Norm(b.fill, b.rest \o [i \in 1..(n - BlockLen(b)) |-> UninitSlot])

create_db_header ==
    [magic |-> HEADER_MAGIC, version |-> PROTO_VER, count |-> 0, filesize |-> U32(12)]

(* add_employee(dbhdr, employees_ptr, addstring); mem says which           *)
(* allocation, if any, fails.  The result is [status, dbhdr, employees].   *)
add_employee(hdr, emps, addstring, mem) ==
    LET fail == [status |-> STATUS_ERROR, dbhdr |-> hdr, employees |-> emps]
        t1 == Strtok(addstring, 1)
        t2 == Strtok(addstring, t1.next)
        t3 == Strtok(addstring, t2.next)
        t4 == Strtok(addstring, t3.next)
        name == t1.tok
        address == t2.tok
        hours_str == t3.tok
        extra_token == t4.tok
    IN  IF mem = "strdup" THEN fail
        ELSE IF name = <<>> \/ address = <<>> \/ hours_str = <<>> \/ extra_token # <<>>
        THEN fail
        ELSE IF mem = "realloc" THEN fail
        ELSE
        LET grown == Realloc(emps, hdr.count + 1)
            idx == hdr.count + 1
            named == SetSlot(grown, idx,
                             [Slot(grown, idx) EXCEPT !.name = CopyField(name),
                                                      !.address = CopyField(address)])
            failed == [status |-> STATUS_ERROR, dbhdr |-> hdr, employees |-> named]
            h == Strtol(hours_str)
        IN  IF h.end <= Len(hours_str) \/ h.end = 1 \/ h.erange
            THEN failed
            ELSE IF h.neg \/ h.val[3] # 0 \/ h.val[4] # 0
            THEN failed
            ELSE [status |-> STATUS_SUCCESS,
                  dbhdr |-> [hdr EXCEPT !.count = (hdr.count + 1) % UINT16_MOD],
                  employees |-> SetSlot(named, idx,
                                   [Slot(named, idx) EXCEPT !.hours = <<h.val[2], h.val[1]>>])]

(* A remove_employee without the test of line 318: count-- on an unsigned *)
(* short of value 0.                                                       *)
remove_unguarded(hdr, emps, shrink) ==
    LET c == (hdr.count - 1) % UINT16_MOD
    IN  [status |-> STATUS_SUCCESS,
         dbhdr |-> [hdr EXCEPT !.count = c],
         employees |-> IF c = 0 THEN NullBlock
                       ELSE IF shrink /\ c <= BlockLen(emps) THEN Realloc(emps, c) ELSE emps]

(* remove_employee(dbhdr, employees_ptr); shrink says whether the          *)
(* shrinking realloc succeeds.                                             *)
remove_employee(hdr, emps, shrink) ==
    IF hdr.count <= 0
    THEN [status |-> STATUS_ERROR, dbhdr |-> hdr, employees |-> emps]
    ELSE LET c == hdr.count - 1
         IN  [status |-> STATUS_SUCCESS,
              dbhdr |-> [hdr EXCEPT !.count = c],
              employees |-> IF c = 0 THEN NullBlock
                            ELSE IF shrink THEN Realloc(emps, c) ELSE emps]

(* The record list: the first count slots of the block *)
RecordList(hdr, emps) == Take(emps, Min(hdr.count, BlockLen(emps)))

(* The reference stack of C2, a block too *)
Push(b, r) == Norm(b.fill, Append(b.rest, r))
Pop(b) == Take(b, BlockLen(b) - 1)

----------------------------------------------------------------------------
(* The add-strings the environment submits *)

AddStrings ==
    { <<65, 45, 66, 45, 49>>,                 \* "A-B-1"
      <<67, 68, 45, 69, 45, 52, 48>>,         \* "CD-E-40"
      <<65, 45, 45, 66, 45, 49>>,             \* "A--B-1"
      <<45, 65, 45, 66, 45, 49>>,             \* "-A-B-1"
      <<65, 45, 66, 45, 49, 45>>,             \* "A-B-1-"
      <<65, 45, 66>>,                         \* "A-B"
      <<65, 45, 66, 45, 49, 45, 67>>,         \* "A-B-1-C"
      <<65, 45, 66, 45, 120>>,                \* "A-B-x"
      <<65, 45, 66, 45, 52, 50, 57, 52, 57, 54, 55, 50, 57, 54>>,   \* "A-B-4294967296"
      <<>> }                                  \* ""

MemOutcomes == {"ok", "strdup", "realloc"}

----------------------------------------------------------------------------
(* The engine driven directly (main()'s non-server mode applies the same   *)
(* two operations to the loaded store).                                    *)

InitEngine ==
    /\ dbhdr = create_db_header
    /\ employees = NullBlock
    /\ inputs = AddStrings
    /\ nOps = 0
    /\ refStack = NullBlock
    /\ lastOp = [op |-> "none"]
    /\ file = <<>>
    /\ exists = TRUE
    /\ hole = 0
    /\ pc = "run"
    /\ saved = [count |-> 0, list |-> NullBlock]
    /\ clientStates = <<>>           \* poll_loop is not running
    /\ net = <<>>
    /\ backlog = <<>>
    /\ server = "running"
    /\ NoServer

AddEmployee ==
    \E s \in inputs, mem \in MemOutcomes :
        LET r == add_employee(dbhdr, employees, s, mem)
        IN  /\ nOps < MaxOps
            /\ dbhdr' = r.dbhdr
            /\ employees' = r.employees
            /\ nOps' = nOps + 1
            /\ refStack' = IF r.status = STATUS_SUCCESS
                           THEN Push(refStack, Slot(r.employees, dbhdr.count + 1))
                           ELSE refStack
            /\ lastOp' = [op |-> "add", addstring |-> s, mem |-> mem,
                          status |-> r.status, countBefore |-> dbhdr.count,
                          listBefore |-> RecordList(dbhdr, employees)]
            /\ UNCHANGED <<inputs, fileVars, connVars, mainVars>>

RemoveEmployee ==
    \E shrink \in BOOLEAN :
        LET r == remove_employee(dbhdr, employees, shrink)
        IN  /\ nOps < MaxOps
            /\ dbhdr' = r.dbhdr
            /\ employees' = r.employees
            /\ nOps' = nOps + 1
            /\ refStack' = IF r.status = STATUS_SUCCESS
                           THEN Pop(refStack)
                           ELSE refStack
            /\ lastOp' = [op |-> "remove", status |-> r.status,
                          countBefore |-> dbhdr.count,
                          listBefore |-> RecordList(dbhdr, employees)]
            /\ UNCHANGED <<inputs, fileVars, connVars, mainVars>>

NextEngine == AddEmployee \/ RemoveEmployee

SpecEngine == InitEngine /\ [][NextEngine]_vars

(* The same engine on a store one record short of the largest count: the  *)
(* state after UINT16_MAX - 1 successful adds of "A-B-1" to an empty one.  *)
InitEngineFull ==
    /\ dbhdr = [create_db_header EXCEPT !.count = UINT16_MAX - 1]
    /\ employees = [fill |-> UINT16_MAX - 1, rest |-> <<>>]
    /\ inputs = { <<65, 45, 66, 45, 49>>, <<65, 45, 66, 45, 120>> }
    /\ nOps = 0
    /\ refStack = [fill |-> UINT16_MAX - 1, rest |-> <<>>]
    /\ lastOp = [op |-> "none"]
    /\ file = <<>>
    /\ exists = TRUE
    /\ hole = 0
    /\ pc = "run"
    /\ saved = [count |-> 0, list |-> NullBlock]
    /\ clientStates = <<>>           \* poll_loop is not running
    /\ net = <<>>
    /\ backlog = <<>>
    /\ server = "running"
    /\ NoServer

SpecEngineFull == InitEngineFull /\ [][NextEngine]_vars

(* The same engine on add-strings "A-B-<hours>" that differ in the hours   *)
(* field.                                                                  *)
HoursFields ==
    { <<48>>,                                              \* "0"
      <<48, 48, 55>>,                                      \* "007"
      <<52, 50, 57, 52, 57, 54, 55, 50, 57, 53>>,          \* "4294967295"
      <<52, 50, 57, 52, 57, 54, 55, 50, 57, 54>>,          \* "4294967296"
      <<57, 57, 57, 57, 57, 57, 57, 57, 57, 57,
        57, 57, 57, 57, 57, 57, 57, 57, 57, 57>>,          \* twenty 9s
      <<49, 120>>,                                         \* "1x"
      <<32, 55>>,                                          \* " 7"
      <<43, 55>>,                                          \* "+7"
      <<32>> }                                             \* " "
HoursStrings == {<<65, 45, 66, 45>> \o h : h \in HoursFields}

InitHours ==
    /\ dbhdr = create_db_header
    /\ employees = NullBlock
    /\ inputs = HoursStrings
    /\ nOps = 0
    /\ refStack = NullBlock
    /\ lastOp = [op |-> "none"]
    /\ file = <<>>
    /\ exists = TRUE
    /\ hole = 0
    /\ pc = "run"
    /\ saved = [count |-> 0, list |-> NullBlock]
    /\ clientStates = <<>>           \* poll_loop is not running
    /\ net = <<>>
    /\ backlog = <<>>
    /\ server = "running"
    /\ NoServer

SpecHours == InitHours /\ [][NextEngine]_vars

----------------------------------------------------------------------------
(* The record file *)

(* the octets of a struct dbheader_t and of a struct employee_t in memory *)
HdrBytes(h) == Mem32(h.magic) \o Mem16(h.version) \o Mem16(h.count) \o Mem32(h.filesize)
EmpBytes(e) == PadTo(e.name, NAME_SIZE) \o PadTo(e.address, NAME_SIZE) \o Mem32(e.hours)
HdrOfBytes(b) ==
    [magic |-> Load32(SubSeq(b, 1, 4)), version |-> Load16(SubSeq(b, 5, 6)),
     count |-> Load16(SubSeq(b, 7, 8)), filesize |-> Load32(SubSeq(b, 9, 12))]
EmpOfBytes(b) ==
    [name |-> Trim(SubSeq(b, 1, NAME_SIZE)),
     address |-> Trim(SubSeq(b, NAME_SIZE + 1, 2 * NAME_SIZE)),
     hours |-> Load32(SubSeq(b, 2 * NAME_SIZE + 1, 2 * NAME_SIZE + 4))]

(* write(fd, bytes) at offset off (off <= Len(f)), and ftruncate(fd, n) *)
WriteAt(f, off, bytes) ==
    SubSeq(f, 1, off) \o bytes \o SubSeq(f, off + Len(bytes) + 1, Len(f))
\* an ftruncate that leaves the length as it is
KeepLength(f, n) == f
Ftruncate(f, n) == IF n <= Len(f) THEN SubSeq(f, 1, n) ELSE PadTo(f, n)

(* output_file's copies in network byte order *)
HeaderToDisk(h, calculated_filesize) ==
    [magic |-> Htonl(h.magic), version |-> Htons(h.version),
     count |-> Htons(h.count), filesize |-> Htonl(U32(calculated_filesize))]
\* a writer that leaves hours in host byte order
EmployeeHostOrder(e) == e
EmployeeToDisk(e) == [e EXCEPT !.hours = Htonl(@)]

\* an output_file whose loop writes no record
WriteNoEmployees(f, emps, i, n) == f

RECURSIVE WriteEmployees(_, _, _, _)
\* the loop of output_file: records i..n, the file offset after the header
WriteEmployees(f, emps, i, n) ==
    IF i > n THEN f
    ELSE WriteEmployees(
             WriteAt(f, HDR_SIZE + (i - 1) * EMP_SIZE, EmpBytes(EmployeeToDisk(Slot(emps, i)))),
             emps, i + 1, n)

(* output_file(fd, dbhdr, employees), its writes succeeding: [status, file] *)
output_file(f, hdr, emps) ==
    LET calculated_filesize == HDR_SIZE + hdr.count * EMP_SIZE
        f1 == WriteAt(f, 0, HdrBytes(HeaderToDisk(hdr, calculated_filesize)))
    IN  IF hdr.count > 0 /\ emps = NullBlock
        THEN [status |-> STATUS_ERROR, file |-> f1]
        ELSE [status |-> STATUS_SUCCESS,
              file |-> Ftruncate(WriteEmployees(f1, emps, 1, hdr.count),
                                 calculated_filesize)]

(* What read(fd, buf, n) at offset 0 has to read from: the octets of the   *)
(* file, and zero octets where they lie in the hole that follows them.     *)
Leading(f, n) == IF hole > 0 /\ Len(f) < n THEN PadTo(f, n) ELSE f

(* validate_db_header(fd, &header): [status, dbhdr].  The stored filesize  *)
(* is compared with (uint32_t)dbstat.st_size, the low 32 bits of the       *)
(* length Len(f) + hole * 2^32.                                            *)
validate_db_header(f) ==
    IF Len(Leading(f, HDR_SIZE)) < HDR_SIZE THEN [status |-> STATUS_ERROR]
    ELSE LET raw == HdrOfBytes(SubSeq(Leading(f, HDR_SIZE), 1, HDR_SIZE))
             header == [magic |-> Ntohl(raw.magic), version |-> Ntohs(raw.version),
                        count |-> Ntohs(raw.count), filesize |-> Ntohl(raw.filesize)]
         IN  IF header.magic # HEADER_MAGIC THEN [status |-> STATUS_ERROR]
             ELSE IF header.version # PROTO_VER THEN [status |-> STATUS_ERROR]
             ELSE IF header.filesize # U32(Len(f)) THEN [status |-> STATUS_ERROR]
             ELSE [status |-> STATUS_SUCCESS, dbhdr |-> header]

(* read_employees(fd, dbhdr, &employees): [status, employees] *)
read_employees(f, hdr) ==
    LET count == hdr.count
        g == Leading(f, HDR_SIZE + count * EMP_SIZE)
    IN  IF count = 0 THEN [status |-> STATUS_SUCCESS, employees |-> NullBlock]
        ELSE IF Len(g) - HDR_SIZE < count * EMP_SIZE THEN [status |-> STATUS_ERROR]
        ELSE [status |-> STATUS_SUCCESS,
              employees |->
                  Norm(0, [i \in 1..count |->
                       [EmpOfBytes(SubSeq(g, HDR_SIZE + (i - 1) * EMP_SIZE + 1,
                                          HDR_SIZE + i * EMP_SIZE))
                        EXCEPT !.hours = Ntohl(@)]])]

----------------------------------------------------------------------------
(* main() around the file: the store is written by output_file, the        *)
(* process ends, and the next run opens the file (validate_db_header) and  *)
(* loads it (read_employees).                                              *)

(* Records of the stores that are saved: plain ones, one with octets after *)
(* its NUL and the largest hours, one with 256 non-NUL name octets.        *)
SampleRecords ==
    { FillerRecord,
      [name |-> <<67, 68>>, address |-> <<69>>, hours |-> <<0, 40>>],
      [name |-> <<65, 0, 66>>, address |-> <<>>, hours |-> <<65535, 65535>>],
      [name |-> [i \in 1..NAME_SIZE |-> 90], address |-> <<66>>, hours |-> <<258, 772>>] }

RECURSIVE Lists(_)
\* the sequences of at most n sample records
Lists(n) ==
    IF n = 0 THEN {<<>>}
    ELSE Lists(n - 1) \cup
         {Append(q, r) : q \in {l \in Lists(n - 1) : Len(l) = n - 1}, r \in SampleRecords}

(* What the file holds before the save: nothing (a file just created), or  *)
(* the octets of an older store, shorter or longer than the one saved.     *)
OldFiles == {<<>>, [i \in 1..HDR_SIZE |-> 170],
             [i \in 1..(HDR_SIZE + (MaxRecords + 1) * EMP_SIZE) |-> 170]}

InitFile ==
    /\ \E q \in Lists(MaxRecords) :
          /\ employees = Norm(0, q)
          /\ dbhdr = [create_db_header EXCEPT !.count = Len(q)]
    /\ file \in OldFiles
    /\ exists = TRUE
    /\ hole = 0
    /\ pc = "run"
    /\ saved = [count |-> 0, list |-> NullBlock]
    /\ clientStates = <<>>           \* poll_loop is not running
    /\ net = <<>>
    /\ backlog = <<>>
    /\ server = "running"
    /\ NoServer
    /\ inputs = {}
    /\ nOps = 0
    /\ refStack = NullBlock
    /\ lastOp = [op |-> "none"]

OutputFile ==
    /\ pc \in {"run", "loaded"}
    /\ LET r == output_file(file, dbhdr, employees)
       IN  /\ file' = r.file
           \* ftruncate sets the length
           /\ hole' = IF r.status = STATUS_SUCCESS THEN 0 ELSE hole
           /\ pc' = IF r.status = STATUS_SUCCESS THEN "saved" ELSE "failed"
    /\ saved' = [count |-> dbhdr.count, list |-> RecordList(dbhdr, employees),
                 before |-> Len(file)]
    \* the process ends: its memory is gone
    /\ dbhdr' = [count |-> 0]
    /\ employees' = NullBlock
    /\ UNCHANGED <<exists, engineHist, connVars, mainVars>>

ValidateDbHeader ==
    /\ pc = "saved"
    /\ LET r == validate_db_header(file)
       IN  IF r.status = STATUS_SUCCESS
           THEN dbhdr' = r.dbhdr /\ pc' = "opened"
           ELSE pc' = "failed" /\ UNCHANGED dbhdr
    /\ UNCHANGED <<employees, file, exists, hole, saved, engineHist, connVars, mainVars>>

ReadEmployees ==
    /\ pc = "opened"
    /\ LET r == read_employees(file, dbhdr)
       IN  IF r.status = STATUS_SUCCESS
           THEN employees' = r.employees /\ pc' = "loaded"
           ELSE pc' = "failed" /\ UNCHANGED employees
    /\ UNCHANGED <<dbhdr, file, exists, hole, saved, engineHist, connVars, mainVars>>

NextFile == OutputFile \/ ValidateDbHeader \/ ReadEmployees

SpecFile == InitFile /\ [][NextFile]_vars

(* main() without -n on any file: the path names a file that may be        *)
(* shorter than a header, carry another magic or version, store a filesize *)
(* and a count that do not fit its length, or be a sparse file longer than *)
(* 2^32 octets.  The file is opened (validate_db_header) and loaded        *)
(* (read_employees).                                                       *)
RECURSIVE RecordOctets(_)
\* the octets of n records as output_file writes them
RecordOctets(n) ==
    IF n = 0 THEN <<>>
    ELSE RecordOctets(n - 1) \o EmpBytes(EmployeeToDisk(FillerRecord))

\* HEADER_MAGIC, and its halves exchanged
OpenMagics == {HEADER_MAGIC, <<HEADER_MAGIC[2], HEADER_MAGIC[1]>>}
\* PROTO_VER, and the version of the older format
OpenVersions == {PROTO_VER, 1}
\* lengths of files, and stored filesizes
OpenLengths == {0, HDR_SIZE - 1, HDR_SIZE + EMP_SIZE - 1}
                   \cup {HDR_SIZE + k * EMP_SIZE : k \in 0..(MaxRecords + 1)}
\* a file is Len(file) octets, or as many followed by 2^32 zero octets
Holes == {0, 1}

\* len octets: a header in network byte order with these fields, then records
OpenFile(m, v, c, fs, len) ==
    Ftruncate(HdrBytes([magic |-> Htonl(m), version |-> Htons(v),
                        count |-> Htons(c), filesize |-> Htonl(U32(fs))])
                  \o RecordOctets(MaxRecords + 1),
              len)

OpenFiles ==
    {OpenFile(x[1], x[2], x[3], x[4], x[5]) :
        x \in OpenMagics \X OpenVersions \X (0..MaxRecords) \X OpenLengths \X OpenLengths}

InitOpen ==
    /\ file \in OpenFiles
    /\ hole \in Holes
    /\ exists = TRUE
    /\ pc = "saved"
    /\ dbhdr = [count |-> 0]
    /\ employees = NullBlock
    /\ saved = [count |-> 0, list |-> NullBlock]
    /\ inputs = {}
    /\ nOps = 0
    /\ refStack = NullBlock
    /\ lastOp = [op |-> "none"]
    /\ clientStates = <<>>
    /\ net = <<>>
    /\ backlog = <<>>
    /\ server = "running"
    /\ NoServer

NextOpen == ValidateDbHeader \/ ReadEmployees

SpecOpen == InitOpen /\ [][NextOpen]_vars

(* main() on a file it is given: the file is opened (validate_db_header),  *)
(* loaded (read_employees), and add and remove work on the loaded store.   *)
(* The files are well-formed ones: a header that validates and the octets  *)
(* of count records.                                                       *)
FileOf(q) == output_file(<<>>, [create_db_header EXCEPT !.count = Len(q)], Norm(0, q)).file
Files == {FileOf(q) : q \in Lists(MaxRecords)}

\* add-strings with a name, or an address, of NAME_SIZE + 1 octets
LongField == [i \in 1..(NAME_SIZE + 1) |-> 90]
LongAddStrings == { <<65, 45, 66, 45, 49>>,
                    LongField \o <<45, 66, 45, 49>>,
                    <<65, 45>> \o LongField \o <<45, 49>> }

InitStore ==
    /\ file \in Files
    /\ exists = TRUE
    /\ hole = 0
    /\ pc = "saved"
    /\ dbhdr = [count |-> 0]
    /\ employees = NullBlock
    /\ saved = [count |-> 0, list |-> NullBlock]
    /\ inputs = LongAddStrings
    /\ nOps = 0
    /\ refStack = NullBlock
    /\ lastOp = [op |-> "none"]
    /\ clientStates = <<>>           \* poll_loop is not running
    /\ net = <<>>
    /\ backlog = <<>>
    /\ server = "running"
    /\ NoServer

AddToLoaded == pc = "loaded" /\ AddEmployee
RemoveFromLoaded == pc = "loaded" /\ RemoveEmployee

NextStore == ValidateDbHeader \/ ReadEmployees \/ AddToLoaded \/ RemoveFromLoaded

SpecStore == InitStore /\ [][NextStore]_vars

----------------------------------------------------------------------------
(* The wire protocol (common.h) and the connection table (srvpoll.h) *)

MSG_HELLO_REQ == 0
MSG_HELLO_RESP == 1
MSG_EMPLOYEE_LIST_REQ == 2
MSG_EMPLOYEE_LIST_RESP == 3
MSG_EMPLOYEE_ADD_REQ == 4
MSG_EMPLOYEE_ADD_RESP == 5
MSG_EMPLOYEE_DEL_REQ == 6
MSG_EMPLOYEE_DEL_RESP == 7
MSG_ERROR == 8
MSG_MAX == 9
CLIENT_BUFFER_SIZE == 4096
MAX_EMPLOYEE_ADD_DATA == 1024
MAX_CLIENTS == 256
\* sizeof(dbproto_hdr_t): the enum (4 octets), the uint16_t len (2) and 2
\* octets of padding; the struct is not packed
PROTO_HDR_SIZE == 8
\* the descriptors main() holds before the first accept: 0..2, dbfd, listen_fd
LISTEN_FD == 4

(* dbproto_hdr_t read from memory: type at octets 1..4, len at 5..6 *)
HdrType(b) == Load32(SubSeq(b, 1, 4))
HdrLen(b) == Load16(SubSeq(b, 5, 6))

(* an int (here -65536..2^31-1) as the 32 bits it is stored in *)
Int32Bits(x) == IF x >= 0 THEN U32(x) ELSE <<UINT16_MAX, UINT16_MOD + x>>

(* A response header as the handlers build it in a stack buffer: type and  *)
(* len are assigned and converted, the two padding octets are never        *)
(* written (-1: an octet of indeterminate value).                          *)
UninitPad == <<-1, -1>>
RespHdr(type, len) == Mem32(Htonl(U32(type))) \o Mem16(Htons(len)) \o UninitPad

(* client->buffer is held as its octets up to the last non-NUL one.        *)
(* Mem reads octets a..b of the array (1-based), Store writes at offset.   *)
Mem(buf, a, b) ==
    IF b <= Len(buf) THEN SubSeq(buf, a, b)
    ELSE IF a > Len(buf) THEN Zeros(b - a + 1)
    ELSE SubSeq(buf, a, Len(buf)) \o Zeros(b - Len(buf))
Store(buf, off, bytes) ==
    IF bytes = <<>> THEN buf
    ELSE Trim(WriteAt(IF Len(buf) < off THEN PadTo(buf, off) ELSE buf, off, bytes))

(* The C string that starts at octet from of the buffer: it runs to the    *)
(* first NUL, wherever that is (at the end of the array if there is none). *)
CString(buf, from) ==
    LET nul == {i \in from..Len(buf) : buf[i] = 0}
        end == IF nul = {} THEN Len(buf) + 1
               ELSE CHOOSE i \in nul : \A j \in nul : i <= j
    IN  SubSeq(buf, from, end - 1)

FreeSlot ==
    [fd |-> -1, state |-> "STATE_NEW", buffer |-> <<>>,
     buffer_pos |-> 0, msg_expected_len |-> 0]
init_clients == [i \in 0..(MAX_CLIENTS - 1) |-> FreeSlot]

\* a search that gives the first slot whether it is free or not
find_first_slot(cs) == 0

find_free_slot(cs) ==
    IF \E i \in DOMAIN cs : cs[i].fd = -1
    THEN CHOOSE i \in DOMAIN cs : cs[i].fd = -1 /\ \A j \in DOMAIN cs : j < i => cs[j].fd # -1
    ELSE STATUS_ERROR

\* a close that leaves buffer_pos and msg_expected_len as they are
close_keep_cursor(client) ==
    IF client.fd # -1
    THEN [client EXCEPT !.fd = -1, !.state = "STATE_DISCONNECTED"]
    ELSE client
close_client_connection(client) ==
    IF client.fd # -1
    THEN [client EXCEPT !.fd = -1, !.state = "STATE_DISCONNECTED",
                        !.buffer_pos = 0, !.msg_expected_len = 0]
    ELSE client

(* One call of handle_client_fsm works on a context: the client slot, the  *)
(* engine, what the call has sent (out) and dispatched (log) so far, the   *)
(* number of send_full calls made, which of them fails and how (fail), and *)
(* whether the process is still alive.  A function of the program is a     *)
(* chain of operators here: one up to each call whose result it tests, one *)
(* for what it does with the result.                                       *)
NoFail == [at |-> 0, how |-> "ok"]

(* send_full(client->fd, bytes): "ok", "error" (send returns -1, e.g.      *)
(* ECONNRESET) or "sigpipe" (EPIPE: no handler is installed for SIGPIPE    *)
(* and send is called without MSG_NOSIGNAL, so the signal ends the process)*)
send_full(ctx, bytes, isFrame) ==
    LET k == ctx.sends + 1
        res == IF k = ctx.fail.at THEN ctx.fail.how ELSE "ok"
    IN  [ctx EXCEPT !.sends = k,
                    !.out = Append(@, [bytes |-> bytes, res |-> res, frame |-> isFrame]),
                    !.res = res,
                    !.alive = (res # "sigpipe")]

Close(ctx) == [ctx EXCEPT !.client = close_client_connection(@)]
\* after a send whose failure closes the connection
CloseOnSendError(c) == IF c.alive /\ c.res = "error" THEN Close(c) ELSE c
\* after a send that is followed by close_client_connection either way
CloseAfterSend(c) == IF c.alive THEN Close(c) ELSE c

\* an error reply that sends nothing
fsm_close_silently(ctx) == Close(ctx)
fsm_reply_error(ctx) == CloseAfterSend(send_full(ctx, RespHdr(MSG_ERROR, 0), TRUE))

\* the end of a hello reply that leaves the state as it is
HelloNoUpgrade(c) == CloseOnSendError(c)
HelloSent(c) ==
    IF ~c.alive THEN c
    ELSE IF c.res = "error" THEN Close(c)
    ELSE [c EXCEPT !.client.state = "STATE_READY_FOR_MSG"]
fsm_reply_hello(ctx) ==
    HelloSent(send_full(ctx, RespHdr(MSG_HELLO_RESP, 2) \o Mem16(Htons(PROTO_VER)), TRUE))

\* a response to an add or a remove that closes the connection behind it
StatusReplyThenClose(ctx, r, op, type) ==
    CloseAfterSend(
        send_full([ctx EXCEPT !.dbhdr = r.dbhdr, !.employees = r.employees, !.op = op],
                  RespHdr(type, 4)
                      \o Mem32(Htonl(Int32Bits(IF r.status = STATUS_SUCCESS
                                               THEN STATUS_SUCCESS ELSE STATUS_ERROR))),
                  TRUE))
\* the response to an add or a remove whose engine call returned r
StatusReply(ctx, r, op, type) ==
    CloseOnSendError(
        send_full([ctx EXCEPT !.dbhdr = r.dbhdr, !.employees = r.employees, !.op = op],
                  RespHdr(type, 4)
                      \o Mem32(Htonl(Int32Bits(IF r.status = STATUS_SUCCESS
                                               THEN STATUS_SUCCESS ELSE STATUS_ERROR))),
                  TRUE))

fsm_handle_add_employee(ctx, len) ==
    IF len # MAX_EMPLOYEE_ADD_DATA THEN fsm_reply_error(ctx)
    ELSE StatusReply(ctx,
                     add_employee(ctx.dbhdr, ctx.employees,
                                  CString(ctx.client.buffer, PROTO_HDR_SIZE + 1), "ok"),
                     "add", MSG_EMPLOYEE_ADD_RESP)

EmployeeToWire(e) == [e EXCEPT !.hours = Htonl(@)]

RECURSIVE SendEmployees(_, _)
\* a loop that returns to poll_loop after each record
EmployeeSentYield(c, i) == c
\* the loop of fsm_handle_list_employees after the send of record i
EmployeeSent(c, i) ==
    IF ~c.alive THEN c
    ELSE IF c.res = "error" THEN Close(c)
    ELSE SendEmployees(c, i + 1)
\* the loop of fsm_handle_list_employees, from record i on
SendEmployees(ctx, i) ==
    IF i > ctx.dbhdr.count THEN ctx
    ELSE EmployeeSent(send_full(ctx, EmpBytes(EmployeeToWire(Slot(ctx.employees, i))), FALSE),
                      i)

\* a list handler that stops after the header
ListHeaderOnly(c) == CloseOnSendError(c)
ListHeaderSent(c) ==
    IF ~c.alive THEN c
    ELSE IF c.res = "error" THEN Close(c)
    ELSE IF c.dbhdr.count > 0 /\ c.employees = NullBlock THEN fsm_reply_error(c)
    ELSE SendEmployees(c, 1)
fsm_handle_list_employees(ctx, len) ==
    IF len # 0 THEN fsm_reply_error(ctx)
    ELSE ListHeaderSent(send_full([ctx EXCEPT !.op = "list"],
                                  RespHdr(MSG_EMPLOYEE_LIST_RESP, 2)
                                      \o Mem16(Htons(ctx.dbhdr.count)), TRUE))

\* a remove handler without the length check
fsm_remove_unchecked(ctx, len) ==
    StatusReply(ctx, remove_employee(ctx.dbhdr, ctx.employees, TRUE),
                "remove", MSG_EMPLOYEE_DEL_RESP)
fsm_handle_remove_employee(ctx, len) ==
    IF len # 0 THEN fsm_reply_error(ctx)
    ELSE StatusReply(ctx, remove_employee(ctx.dbhdr, ctx.employees, TRUE),
                     "remove", MSG_EMPLOYEE_DEL_RESP)

(* The checks handle_client_fsm makes on a header before it waits for the  *)
(* body: type and len are the header's fields after ntohl and ntohs.       *)
\* a check that lets every header pass
HeaderUnchecked(type, len) == FALSE
\* a check of the body's length alone against the buffer
HeaderSizeIgnored(type, len) ==
    type[1] # 0 \/ type[2] >= MSG_MAX \/ len > CLIENT_BUFFER_SIZE
HeaderMalformed(type, len) ==
    \/ type[1] # 0 \/ type[2] >= MSG_MAX
    \/ PROTO_HDR_SIZE + len > CLIENT_BUFFER_SIZE

\* a hello check that accepts every version
HelloAcceptsAny(proto) == TRUE
HelloAccepted(proto) == proto = PROTO_VER

(* The end of the drain loop's body: the bytes after the dispatched        *)
(* message move to the front of the buffer.                                *)
\* a compaction that drops them
CompactDiscard(client) == [client EXCEPT !.buffer_pos = 0, !.msg_expected_len = 0]
Compact(client) ==
    LET remaining_bytes == client.buffer_pos - client.msg_expected_len
    IN  [client EXCEPT
            !.buffer = IF remaining_bytes > 0
                       THEN Store(@, 0, Mem(@, client.msg_expected_len + 1,
                                            client.msg_expected_len + remaining_bytes))
                       ELSE @,
            !.buffer_pos = remaining_bytes,
            !.msg_expected_len = 0]

Return(ctx) == [ctx EXCEPT !.returned = TRUE]

\* hello_req->proto = ntohs(hello_req->proto), in the buffer
ProtoConverted(ctx, proto) ==
    [ctx EXCEPT !.client.buffer = Store(@, PROTO_HDR_SIZE, Mem16(proto))]
\* STATE_CONNECTED, a MSG_HELLO_REQ of the right length carrying proto
HelloChecked(ctx, proto) ==
    IF ~HelloAccepted(proto) THEN Return(fsm_reply_error(ProtoConverted(ctx, proto)))
    ELSE fsm_reply_hello(ProtoConverted(ctx, proto))

\* a switch that serves the three requests in whatever state the client is
SwitchAnyState(ctx, type, len) ==
    IF type = U32(MSG_EMPLOYEE_ADD_REQ) THEN fsm_handle_add_employee(ctx, len)
    ELSE IF type = U32(MSG_EMPLOYEE_LIST_REQ) THEN fsm_handle_list_employees(ctx, len)
    ELSE IF type = U32(MSG_EMPLOYEE_DEL_REQ) THEN fsm_handle_remove_employee(ctx, len)
    ELSE IF type = U32(MSG_HELLO_REQ) /\ len = 2 /\ ctx.client.state = "STATE_CONNECTED"
    THEN HelloChecked(ctx, Ntohs(Load16(Mem(ctx.client.buffer, PROTO_HDR_SIZE + 1,
                                            PROTO_HDR_SIZE + 2))))
    ELSE Return(fsm_reply_error(ctx))
(* The switch on client->state, on a complete message whose header (type,  *)
(* len) has been converted in place.                                       *)
Switch(ctx, type, len) ==
    IF ctx.client.state = "STATE_CONNECTED"
    THEN IF type = U32(MSG_HELLO_REQ)
         THEN IF len # 2 THEN Return(fsm_reply_error(ctx))
              ELSE HelloChecked(ctx, Ntohs(Load16(Mem(ctx.client.buffer, PROTO_HDR_SIZE + 1,
                                                      PROTO_HDR_SIZE + 2))))
         ELSE Return(fsm_reply_error(ctx))
    ELSE IF ctx.client.state = "STATE_READY_FOR_MSG"
    THEN IF type = U32(MSG_EMPLOYEE_ADD_REQ) THEN fsm_handle_add_employee(ctx, len)
         ELSE IF type = U32(MSG_EMPLOYEE_LIST_REQ) THEN fsm_handle_list_employees(ctx, len)
         ELSE IF type = U32(MSG_EMPLOYEE_DEL_REQ) THEN fsm_handle_remove_employee(ctx, len)
         ELSE Return(fsm_reply_error(ctx))
    ELSE Return(fsm_reply_error(ctx))
Dispatch(ctx) ==
    Switch(ctx, HdrType(Mem(ctx.client.buffer, 1, PROTO_HDR_SIZE)),
           HdrLen(Mem(ctx.client.buffer, 1, PROTO_HDR_SIZE)))

(* history: what one step of the drain loop did *)
Logged(kind, before, after, type, len, body) ==
    [after EXCEPT !.log = Append(@,
        [kind |-> kind, state |-> before.client.state, type |-> type, len |-> len,
         body |-> body,
         count |-> before.dbhdr.count,
         list |-> RecordList(before.dbhdr, before.employees),
         after |-> IF after.alive THEN after.client.state ELSE "KILLED",
         sent |-> SubSeq(after.out, Len(before.out) + 1, Len(after.out)),
         op |-> after.op,
         returned |-> after.returned,
         pos |-> after.client.buffer_pos,
         expected |-> after.client.msg_expected_len,
         engineSame |-> (after.dbhdr = before.dbhdr
                            /\ after.employees = before.employees)])]

\* current_hdr->type = ntohl(...), current_hdr->len = ntohs(...), in the buffer
HeaderConverted(ctx) ==
    [ctx EXCEPT !.client.buffer =
                    Store(@, 0, Mem32(Ntohl(HdrType(Mem(@, 1, PROTO_HDR_SIZE))))
                                    \o Mem16(Ntohs(HdrLen(Mem(@, 1, PROTO_HDR_SIZE))))),
                !.op = "none", !.returned = FALSE]

\* the dispatch of the complete message at the front of the buffer
Dispatched(wire, c0) ==
    Logged("dispatch", c0, Dispatch(c0),
           HdrType(Mem(c0.client.buffer, 1, PROTO_HDR_SIZE)),
           HdrLen(Mem(c0.client.buffer, 1, PROTO_HDR_SIZE)),
           Mem(wire.client.buffer, PROTO_HDR_SIZE + 1, wire.client.msg_expected_len))

\* the rejection of a header
Rejected(c0, type, len) ==
    Logged("malformed", c0, Return(fsm_reply_error(c0)), type, len, <<>>)

RECURSIVE Drain(_)
\* a loop that leaves after the first message it has dispatched
ContinueOnce(c) ==
    IF c.returned \/ ~c.alive THEN c ELSE [c EXCEPT !.client = Compact(@)]
\* after the switch: return, or compact and loop
Continue(c) ==
    IF c.returned \/ ~c.alive THEN c
    ELSE Drain([c EXCEPT !.client = Compact(@)])
\* msg_expected_len is set: dispatch if the message is complete
Complete(ctx) ==
    IF ctx.client.buffer_pos >= ctx.client.msg_expected_len
    THEN Continue(Dispatched(ctx, HeaderConverted(ctx)))
    ELSE ctx
\* msg_expected_len is 0: the header's fields are temp_hdr.type, temp_hdr.len
Parse(ctx, type, len) ==
    IF HeaderMalformed(type, len)
    THEN Rejected([ctx EXCEPT !.op = "none"], type, len)
    ELSE Complete([ctx EXCEPT !.client.msg_expected_len = PROTO_HDR_SIZE + len])
\* the while loop of handle_client_fsm
Drain(ctx) ==
    IF ~ctx.alive \/ ctx.client.buffer_pos < PROTO_HDR_SIZE THEN ctx
    ELSE IF ctx.client.msg_expected_len = 0
    THEN Parse(ctx, Ntohl(HdrType(Mem(ctx.client.buffer, 1, PROTO_HDR_SIZE))),
               Ntohs(HdrLen(Mem(ctx.client.buffer, 1, PROTO_HDR_SIZE))))
    ELSE Complete(ctx)

(* handle_client_fsm(dbhdr, employees, client) when recv returns chunk     *)
(* (<<>>: recv returned 0 or failed)                                       *)
handle_client_fsm(ctx, chunk) ==
    IF chunk = <<>> THEN Close(ctx)
    ELSE Drain([ctx EXCEPT !.client.buffer = Store(@, ctx.client.buffer_pos, chunk),
                           !.client.buffer_pos = @ + Len(chunk)])

----------------------------------------------------------------------------
(* Peers.  A peer pipelines a script of messages; the transport delivers   *)
(* its octets to recv in pieces of any size.                               *)

AddData(s) == PadTo(s, MAX_EMPLOYEE_ADD_DATA)    \* char data[1024], NUL padded
BE16(v) == <<v \div 256, v % 256>>

(* A message: the header fields and the body octets the peer sends *)
Msg(name) ==
    CASE name = "HelloReq" -> [type |-> U32(MSG_HELLO_REQ), len |-> 2, body |-> BE16(100)]
      [] name = "HelloReqV1" -> [type |-> U32(MSG_HELLO_REQ), len |-> 2, body |-> BE16(1)]
      [] name = "HelloReqLen4" ->
             [type |-> U32(MSG_HELLO_REQ), len |-> 4, body |-> BE16(100) \o <<0, 0>>]
      [] name = "HelloResp" -> [type |-> U32(MSG_HELLO_RESP), len |-> 2, body |-> BE16(100)]
      [] name = "ListReq" -> [type |-> U32(MSG_EMPLOYEE_LIST_REQ), len |-> 0, body |-> <<>>]
      [] name = "ListReqLen2" ->
             [type |-> U32(MSG_EMPLOYEE_LIST_REQ), len |-> 2, body |-> <<0, 7>>]
      [] name = "AddReq" ->
             [type |-> U32(MSG_EMPLOYEE_ADD_REQ), len |-> MAX_EMPLOYEE_ADD_DATA,
              body |-> AddData(<<65, 45, 66, 45, 49>>)]                \* "A-B-1"
      [] name = "AddReqBad" ->
             [type |-> U32(MSG_EMPLOYEE_ADD_REQ), len |-> MAX_EMPLOYEE_ADD_DATA,
              body |-> AddData(<<65, 45, 66>>)]                        \* "A-B"
      [] name = "AddReqBadHours" ->
             [type |-> U32(MSG_EMPLOYEE_ADD_REQ), len |-> MAX_EMPLOYEE_ADD_DATA,
              body |-> AddData(<<65, 45, 66, 45, 120>>)]               \* "A-B-x"
      [] name = "AddReqShort" ->
             [type |-> U32(MSG_EMPLOYEE_ADD_REQ), len |-> 5,
              body |-> <<65, 45, 66, 45, 49>>]
      [] name = "DelReq" -> [type |-> U32(MSG_EMPLOYEE_DEL_REQ), len |-> 0, body |-> <<>>]
      [] name = "DelReqLen1" ->
             [type |-> U32(MSG_EMPLOYEE_DEL_REQ), len |-> 1, body |-> <<9>>]
      [] name = "Kind9" -> [type |-> U32(MSG_MAX), len |-> 0, body |-> <<>>]
      [] name = "KindHuge" -> [type |-> <<UINT16_MAX, UINT16_MAX>>, len |-> 0, body |-> <<>>]
      [] name = "AddReqFill" ->       \* header and body fill the buffer
             [type |-> U32(MSG_EMPLOYEE_ADD_REQ),
              len |-> CLIENT_BUFFER_SIZE - PROTO_HDR_SIZE,
              body |-> Zeros(CLIENT_BUFFER_SIZE - PROTO_HDR_SIZE)]
      [] name = "AddReqFill2" ->      \* two octets more
             [type |-> U32(MSG_EMPLOYEE_ADD_REQ),
              len |-> CLIENT_BUFFER_SIZE - PROTO_HDR_SIZE + 2,
              body |-> Zeros(CLIENT_BUFFER_SIZE - PROTO_HDR_SIZE + 2)]
      [] name = "AddReqNoNul" ->      \* "A-", 1020 times "B", "-4": no NUL in the body
             [type |-> U32(MSG_EMPLOYEE_ADD_REQ), len |-> MAX_EMPLOYEE_ADD_DATA,
              body |-> <<65, 45>> \o [i \in 1..(MAX_EMPLOYEE_ADD_DATA - 4) |-> 66]
                           \o <<45, 52>>]
      [] name = "KindDigit" ->        \* a header whose first octet is the digit 0
             [type |-> <<48 * 256, 0>>, len |-> 0, body |-> <<>>]
      [] name = "TooLong" ->
             [type |-> U32(MSG_EMPLOYEE_LIST_REQ),
              len |-> CLIENT_BUFFER_SIZE - PROTO_HDR_SIZE + 1, body |-> <<1, 2, 3>>]

(* The octets of a message on the wire, as the client of srvpoll.h lays    *)
(* them out: type and len in network byte order, the padding zero.         *)
WireBytes(m) ==
    <<m.type[1] \div 256, m.type[1] % 256, m.type[2] \div 256, m.type[2] % 256>>
        \o BE16(m.len) \o <<0, 0>> \o m.body

(* What a peer that stalls has sent of its last message: the first HdrCut  *)
(* octets of the header of a ListReq, or the header of an AddReq and the    *)
(* first octets of its body.                                               *)
PartOf(name) ==
    CASE name = "ListReqPart" -> [of |-> "ListReq", octets |-> HdrCut]
      [] name = "AddReqPart" -> [of |-> "AddReq", octets |-> PROTO_HDR_SIZE + HdrCut]
      \* type and len of a header, without the padding that follows them
      [] name = "Kind9Fields" -> [of |-> "Kind9", octets |-> PROTO_HDR_SIZE - 2]
      [] name = "ListReqFields" -> [of |-> "ListReq", octets |-> PROTO_HDR_SIZE - 2]
      \* all but the last octet of a message that fills the buffer
      [] name = "AddReqFillPart" -> [of |-> "AddReqFill", octets |-> CLIENT_BUFFER_SIZE - 1]
PartNames == {"ListReqPart", "AddReqPart", "Kind9Fields", "ListReqFields", "AddReqFillPart"}

MsgNames == {"HelloReq", "HelloReqV1", "HelloReqLen4", "HelloResp", "ListReq",
             "ListReqLen2", "AddReq", "AddReqBad", "AddReqBadHours", "AddReqShort", "DelReq",
             "DelReqLen1", "Kind9", "KindHuge", "TooLong", "AddReqFill", "AddReqFill2",
             "AddReqNoNul", "KindDigit"}
\* the messages and their octets, worked out once
MsgTable ==
    [name \in MsgNames \cup PartNames |->
        IF name \in PartNames
        THEN [msg |-> Msg(PartOf(name).of),
              wire |-> SubSeq(WireBytes(Msg(PartOf(name).of)), 1, PartOf(name).octets)]
        ELSE [msg |-> Msg(name), wire |-> WireBytes(Msg(name))]]

RECURSIVE ScriptBytes(_)
ScriptBytes(script) ==
    IF script = <<>> THEN <<>>
    ELSE MsgTable[Head(script)].wire \o ScriptBytes(Tail(script))

\* the stream offset at which message k of the script starts
RECURSIVE StartOffset(_, _)
StartOffset(script, k) ==
    IF k = 1 THEN 0
    ELSE StartOffset(script, k - 1) + Len(MsgTable[script[k - 1]].wire)
EndOffset(script, k) == StartOffset(script, k) + Len(MsgTable[script[k]].wire)

(* Requests that keep a Ready connection open, requests that close it,    *)
(* and first messages other than the hello the server accepts.             *)
GoodRequests == {"ListReq", "AddReq", "DelReq"}
BadRequests == {"HelloReq", "HelloResp", "ListReqLen2", "AddReqShort", "DelReqLen1",
                "Kind9", "KindHuge", "TooLong"}
RefusedAdds == {"AddReqBad", "AddReqBadHours"}
BadHellos == {"HelloReqV1", "HelloReqLen4", "AddReqBad"}
                 \cup ((GoodRequests \cup BadRequests) \ {"HelloReq"})

RECURSIVE Seqs(_, _)
\* the sequences over S of length at most n
Seqs(S, n) ==
    IF n = 0 THEN {<<>>}
    ELSE Seqs(S, n - 1) \cup
         {Append(q, x) : q \in {p \in Seqs(S, n - 1) : Len(p) = n - 1}, x \in S}

(* The scripts, of at most MaxMsgs messages: a first message that is not   *)
(* the hello; the hello and good requests; the hello, an add the engine    *)
(* refuses; the hello, at most one good request and a request that closes  *)
(* the connection.  What follows a closing message is a ListReq.           *)
Scripts ==
    LET afterBad == {<<>>, <<"ListReq">>}
        all == {<<b>> \o t : b \in BadHellos, t \in afterBad}
                   \cup {<<"HelloReq">> \o g : g \in Seqs(GoodRequests, MaxMsgs - 1)}
                   \cup {<<"HelloReq", a>> \o t : a \in RefusedAdds, t \in afterBad}
                   \cup {<<"HelloReq">> \o g \o <<b>> \o t :
                            g \in Seqs(GoodRequests, 1), b \in BadRequests,
                            t \in afterBad}
    IN  {s \in all : Len(s) <= MaxMsgs}

(* Where reads may end: HdrCut octets into a message, at the end of its    *)
(* header, and at its end.                                                 *)
Cuts(script) ==
    UNION {LET s == StartOffset(script, k)
               e == EndOffset(script, k)
           IN  {c \in {s + HdrCut, s + PROTO_HDR_SIZE, e} : s < c /\ c <= e}
           : k \in 1..Len(script)}

\* the sizes recv may return when max octets can be read
RecvSizes(conn, max) ==
    IF max = 0 THEN {0}
    ELSE {max} \cup {c - conn.received : c \in {x \in Cuts(conn.script) :
                                                  conn.received < x /\ x <= conn.received + max}}

(* How the sends of one call may go when it makes `sends` of them: all     *)
(* succeed, or, once the peer has gone, one of the first MaxSendFail fails.*)
SendFailures(peer, sends) ==
    IF peer = "open" THEN {NoFail}
    ELSE {NoFail} \cup {[at |-> k, how |-> h] :
                           k \in 1..Min(sends, MaxSendFail), h \in {"error", "sigpipe"}}

----------------------------------------------------------------------------
(* poll_loop: accept on the listening socket, handle_client_fsm on a       *)
(* readable client.                                                        *)

\* accept returns the lowest descriptor that is not open
NextFd ==
    LET used == {f \in DOMAIN net : net[f].open}
    IN  CHOOSE f \in (LISTEN_FD + 1)..(LISTEN_FD + 1 + Cardinality(used)) :
            f \notin used /\ \A g \in (LISTEN_FD + 1)..(f - 1) : g \in used

\* an accept that stores the descriptor and leaves the rest of the slot as it is
KeepClient(client, conn_fd) == [client EXCEPT !.fd = conn_fd]
\* the four assignments to clientStates[freeSlot] (lines 552-555)
NewClient(client, conn_fd) ==
    [client EXCEPT !.fd = conn_fd, !.state = "STATE_CONNECTED",
                   !.buffer_pos = 0, !.msg_expected_len = 0]

AcceptConnection ==
    /\ server = "running"
    /\ backlog # <<>>
    /\ LET conn_fd == NextFd
           freeSlot == find_free_slot(clientStates)
           conn == [script |-> Head(backlog), received |-> 0, peer |-> "open",
                    open |-> freeSlot # STATUS_ERROR,
                    out |-> <<>>, log |-> <<>>, lastAt |-> 0]
       IN  /\ net' = [f \in DOMAIN net \cup {conn_fd} |->
                          IF f = conn_fd THEN conn ELSE net[f]]
           /\ clientStates' =
                  IF freeSlot = STATUS_ERROR THEN clientStates
                  ELSE [clientStates EXCEPT ![freeSlot] = NewClient(@, conn_fd)]
    /\ backlog' = Tail(backlog)
    /\ UNCHANGED <<server, engineVars, engineHist, fileVars>>

\* the accept of line 538 whenever a connection waits
Accept == AcceptConnection /\ UNCHANGED mainVars

\* what recv(client->fd, buffer + buffer_pos, CLIENT_BUFFER_SIZE - buffer_pos) may return
RecvChunks(client, conn) ==
    LET stream == ScriptBytes(conn.script)
        pending == Len(stream) - conn.received
        room == CLIENT_BUFFER_SIZE - client.buffer_pos
    IN  {SubSeq(stream, conn.received + 1, conn.received + n) :
            n \in RecvSizes(conn, Min(pending, room))}

\* a loop that calls the handler of every client, readable or not
ReadableAlways(conn) == TRUE
\* POLLIN: there are octets to read, or the end of the stream
Readable(conn) ==
    \/ conn.peer = "closed"
    \/ conn.received < EndOffset(conn.script, Len(conn.script))

CallContext(client, fail) ==
    [client |-> client, dbhdr |-> dbhdr, employees |-> employees,
     out |-> <<>>, log |-> <<>>, sends |-> 0, fail |-> fail,
     res |-> "ok", alive |-> TRUE, op |-> "none", returned |-> FALSE]

CallHandler(i) ==
    /\ server = "running"
    /\ clientStates[i].fd # -1
    /\ Readable(net[clientStates[i].fd])
    /\ \E chunk \in RecvChunks(clientStates[i], net[clientStates[i].fd]) :
       \E r0 \in {handle_client_fsm(CallContext(clientStates[i], NoFail), chunk)} :
       \E fail \in SendFailures(net[clientStates[i].fd].peer, r0.sends) :
          \E r \in {IF fail = NoFail THEN r0
                    ELSE handle_client_fsm(CallContext(clientStates[i], fail), chunk)} :
             /\ clientStates' = [clientStates EXCEPT ![i] = r.client]
             /\ dbhdr' = r.dbhdr
             /\ employees' = r.employees
             /\ server' = IF r.alive THEN "running" ELSE "killed"
             /\ net' = [f \in DOMAIN net |->
                          IF f = clientStates[i].fd
                          THEN [net[f] EXCEPT
                                   !.received = @ + Len(chunk),
                                   !.out = @ \o r.out,
                                   !.log = @ \o r.log,
                                   !.open = r.alive /\ r.client.fd # -1,
                                   !.lastAt = net[f].received]
                          ELSE IF r.alive THEN net[f]
                          ELSE [net[f] EXCEPT !.open = FALSE]]
    /\ UNCHANGED <<backlog, engineHist, fileVars>>

\* the call of line 570 whenever the client of slot i is readable
HandleClient(i) == CallHandler(i) /\ UNCHANGED mainVars

(* the peer of an open connection closes (or resets) its end *)
PeerClose(fd) ==
    /\ net[fd].open
    /\ net[fd].peer = "open"
    /\ net' = [net EXCEPT ![fd].peer = "closed"]
    /\ UNCHANGED <<clientStates, backlog, server, engineVars, engineHist, fileVars, mainVars>>

(* The store poll_loop starts on: a new one, or, for the peers that say    *)
(* hello, list and send good requests only, also one loaded with a record. *)
LoadedRecord == [name |-> <<67, 68>>, address |-> <<69>>, hours |-> <<0, 40>>]
Stores(script) ==
    IF /\ script[1] = "HelloReq"
       /\ \E i \in 2..Len(script) : script[i] = "ListReq"
       /\ \A i \in 2..Len(script) : script[i] \in GoodRequests
    THEN {<<>>, <<LoadedRecord>>}
    ELSE {<<>>}

InitConn ==
    /\ \E s \in Scripts : \E q \in Stores(s) :
          /\ backlog = <<s>>
          /\ dbhdr = [create_db_header EXCEPT !.count = Len(q)]
          /\ employees = Norm(0, q)
    /\ clientStates = init_clients
    /\ net = <<>>
    /\ server = "running"
    /\ NoServer
    /\ inputs = {}
    /\ nOps = 0
    /\ refStack = NullBlock
    /\ lastOp = [op |-> "none"]
    /\ file = <<>>
    /\ exists = TRUE
    /\ hole = 0
    /\ pc = "run"
    /\ saved = [count |-> 0, list |-> NullBlock]

NextConn ==
    \/ Accept
    \/ \E i \in DOMAIN clientStates : HandleClient(i)
    \/ \E fd \in DOMAIN net : PeerClose(fd)

SpecConn == InitConn /\ [][NextConn]_vars

(* The server on a store of UINT16_MAX records (the state after that many  *)
(* successful adds, or after loading a file that holds them).  The peer    *)
(* says hello, adds, and goes on with good requests.                       *)
ScriptsFull == {<<"HelloReq", "AddReq">> \o g : g \in Seqs(GoodRequests, MaxMsgs - 2)}

InitConnFull ==
    /\ dbhdr = [create_db_header EXCEPT !.count = UINT16_MAX]
    /\ employees = [fill |-> UINT16_MAX, rest |-> <<>>]
    /\ clientStates = init_clients
    /\ net = <<>>
    /\ backlog \in {<<s>> : s \in ScriptsFull}
    /\ server = "running"
    /\ NoServer
    /\ inputs = {}
    /\ nOps = 0
    /\ refStack = NullBlock
    /\ lastOp = [op |-> "none"]
    /\ file = <<>>
    /\ exists = TRUE
    /\ hole = 0
    /\ pc = "run"
    /\ saved = [count |-> 0, list |-> NullBlock]

SpecConnFull == InitConnFull /\ [][NextConn]_vars

(* The server when its table is nearly full: MAX_CLIENTS - 1 clients have  *)
(* said hello and are idle, one slot (the first or the last) is free, and  *)
(* three connections arrive.  The peer of the first descriptor may close.  *)
IdleConn ==
    [script |-> <<"HelloReq">>, received |-> Len(ScriptBytes(<<"HelloReq">>)),
     peer |-> "open", open |-> TRUE, out |-> <<>>, log |-> <<>>,
     lastAt |-> Len(ScriptBytes(<<"HelloReq">>))]
IdleClient(fd) == [FreeSlot EXCEPT !.fd = fd, !.state = "STATE_READY_FOR_MSG"]

TableHoles == {0, MAX_CLIENTS - 1}
TableArrivals ==
    {<<a, <<"HelloReq">>, <<"HelloReq">> >> : a \in {<<"HelloReq">>, <<"HelloReq", "ListReq">>}}
TableClosers == {LISTEN_FD + 1}

InitTable ==
    /\ \E free \in TableHoles :
          /\ clientStates = [i \in 0..(MAX_CLIENTS - 1) |->
                                IF i = free THEN FreeSlot
                                ELSE IdleClient(LISTEN_FD + 1 + i)]
          /\ net = [f \in {LISTEN_FD + 1 + i : i \in (0..(MAX_CLIENTS - 1)) \ {free}}
                       |-> IdleConn]
    /\ backlog \in TableArrivals
    /\ dbhdr = [create_db_header EXCEPT !.count = 1]
    /\ employees = Norm(0, <<LoadedRecord>>)
    /\ server = "running"
    /\ NoServer
    /\ inputs = {}
    /\ nOps = 0
    /\ refStack = NullBlock
    /\ lastOp = [op |-> "none"]
    /\ file = <<>>
    /\ exists = TRUE
    /\ hole = 0
    /\ pc = "run"
    /\ saved = [count |-> 0, list |-> NullBlock]

NextTable ==
    \/ Accept
    \/ \E i \in DOMAIN clientStates : HandleClient(i)
    \/ \E fd \in DOMAIN net \cap TableClosers : PeerClose(fd)

SpecTable == InitTable /\ [][NextTable]_vars

----------------------------------------------------------------------------
(* main() in server mode: the handler of SIGINT, poll_loop statement by    *)
(* statement, output_file after the loop, and the next run of the server   *)
(* on the file it left.                                                    *)

MaxSignals == 1       \* SIGINTs delivered in all
MaxRuns == 2          \* runs of the server on the file

\* handle_sigint(SIGINT): the fprintf of line 407, the assignment of line 408
handle_sigint(err) ==
    [server_should_exit |-> 1, errOut |-> Append(err, "handle_sigint")]

\* the descriptors poll reports POLLIN for: the listening socket when a
\* connection waits, the clients with octets (or the end of stream) to read
PollIn ==
    (IF backlog # <<>> THEN {LISTEN_FD} ELSE {})
        \cup {clientStates[j].fd : j \in {k \in DOMAIN clientStates :
                                             /\ clientStates[k].fd # -1
                                             /\ Readable(net[clientStates[k].fd])}}

\* poll_loop is entered (after init_clients and listen)
LoopStart ==
    [at |-> "while", n_events |-> 0, revents |-> {}, i |-> 0,
     eintr |-> FALSE,      \* a signal has interrupted the poll in progress
     flagged |-> FALSE,    \* history: the flag was set when poll returned
     run |-> 1]

(* SIGINT is delivered while poll_loop runs.  A signal that arrives between *)
(* the test of line 515 and the return of poll either finds the process     *)
(* waiting in poll with nothing to report, which poll answers with EINTR,   *)
(* or arrives before the call (or with descriptors ready), which it does    *)
(* not.                                                                     *)
Sigint ==
    /\ server = "running"
    /\ loop.at \notin {"off", "returned"}
    /\ Len(errOut) < MaxSignals
    /\ \E r \in {handle_sigint(errOut)} :
          /\ server_should_exit' = r.server_should_exit
          /\ errOut' = r.errOut
    /\ \E e \in (IF loop.at = "poll" /\ PollIn = {} THEN BOOLEAN ELSE {FALSE}) :
          loop' = [loop EXCEPT !.eintr = @ \/ e]
    /\ UNCHANGED <<engineVars, engineHist, fileVars, connVars, outputs, exitStatus>>

\* line 515: while (!server_should_exit); line 517: fill_pollfds
WhileTest ==
    /\ server = "running"
    /\ loop.at = "while"
    /\ loop' = IF server_should_exit # 0
               THEN [loop EXCEPT !.at = "exited"]
               ELSE [loop EXCEPT !.at = "poll", !.eintr = FALSE, !.flagged = FALSE]
    /\ UNCHANGED <<engineVars, engineHist, fileVars, connVars,
                   server_should_exit, errOut, outputs, exitStatus>>

\* lines 520-528: poll returns -1 with EINTR (continue), or the number of
\* descriptors with events, 0 after the timeout of 100 ms
Poll ==
    /\ server = "running"
    /\ loop.at = "poll"
    /\ loop' = IF loop.eintr
               THEN [loop EXCEPT !.at = "while", !.n_events = -1, !.revents = {},
                                 !.flagged = (server_should_exit # 0)]
               ELSE [loop EXCEPT !.at = "check", !.n_events = Cardinality(PollIn),
                                 !.revents = PollIn,
                                 !.flagged = (server_should_exit # 0)]
    /\ UNCHANGED <<engineVars, engineHist, fileVars, connVars,
                   server_should_exit, errOut, outputs, exitStatus>>

\* lines 531-533: if (n_events == 0 && server_should_exit) break
CheckExit ==
    /\ server = "running"
    /\ loop.at = "check"
    /\ loop' = IF loop.n_events = 0 /\ server_should_exit # 0
               THEN [loop EXCEPT !.at = "exited"]
               ELSE [loop EXCEPT !.at = "accept"]
    /\ UNCHANGED <<engineVars, engineHist, fileVars, connVars,
                   server_should_exit, errOut, outputs, exitStatus>>

\* lines 537-558: if (fds[0].revents & POLLIN) accept
AcceptStep ==
    /\ server = "running"
    /\ loop.at = "accept"
    /\ IF LISTEN_FD \in loop.revents
       THEN AcceptConnection
       ELSE UNCHANGED <<engineVars, engineHist, fileVars, connVars>>
    /\ loop' = [loop EXCEPT !.at = "clients", !.i = 0]
    /\ UNCHANGED <<server_should_exit, errOut, outputs, exitStatus>>

\* lines 564-575: the slots from i on whose descriptor is in fds with POLLIN
ReadySlots ==
    {j \in loop.i..(MAX_CLIENTS - 1) :
        clientStates[j].fd # -1 /\ clientStates[j].fd \in loop.revents}

\* line 570: handle_client_fsm on the next such slot
ClientStep ==
    /\ loop.at = "clients"
    /\ \E j \in ReadySlots :
          /\ \A k \in ReadySlots : j <= k
          /\ CallHandler(j)
          /\ loop' = [loop EXCEPT !.i = j + 1]
    /\ UNCHANGED <<server_should_exit, errOut, outputs, exitStatus>>

\* a loop that rewrites the file at the end of every iteration
ClientsDoneAndSave ==
    /\ server = "running"
    /\ loop.at = "clients"
    /\ ReadySlots = {}
    /\ loop' = [loop EXCEPT !.at = "while"]
    /\ file' = output_file(file, dbhdr, employees).file
    /\ UNCHANGED <<engineVars, engineHist, exists, hole, pc, saved, connVars,
                   server_should_exit, errOut, outputs, exitStatus>>

\* the for loop of line 564 ends; back to line 515
ClientsDone ==
    /\ server = "running"
    /\ loop.at = "clients"
    /\ ReadySlots = {}
    /\ loop' = [loop EXCEPT !.at = "while"]
    /\ UNCHANGED <<engineVars, engineHist, fileVars, connVars,
                   server_should_exit, errOut, outputs, exitStatus>>

(* main, lines 722-729: output_file after poll_loop, and the return.  The  *)
(* writes succeed, or the first of them fails.  The process ends: its      *)
(* memory and its descriptors are gone.                                    *)
SaveAfterLoop ==
    /\ server = "running"
    /\ loop.at = "exited"
    /\ \E io \in {"ok", "fails"} :
       \E r \in {IF io = "ok" THEN output_file(file, dbhdr, employees)
                 ELSE [status |-> STATUS_ERROR, file |-> file]} :
          /\ file' = r.file
          /\ hole' = IF r.status = STATUS_SUCCESS THEN 0 ELSE hole
          /\ pc' = IF r.status = STATUS_SUCCESS THEN "saved" ELSE "failed"
          /\ exitStatus' = <<r.status>>
          /\ outputs' = Append(outputs,
                 [run |-> loop.run, status |-> r.status, count |-> dbhdr.count,
                  list |-> RecordList(dbhdr, employees)])
    /\ saved' = [count |-> dbhdr.count, list |-> RecordList(dbhdr, employees)]
    /\ loop' = [loop EXCEPT !.at = "returned"]
    /\ dbhdr' = [count |-> 0]
    /\ employees' = NullBlock
    /\ clientStates' = <<>>
    /\ net' = <<>>
    /\ UNCHANGED <<exists, backlog, server, engineHist, server_should_exit, errOut>>

(* The next run, lines 659-674 being ValidateDbHeader and ReadEmployees:   *)
(* sigaction (715) and poll_loop (717) on the loaded store.  A peer that   *)
(* says hello and lists is waiting.                                        *)
StartServer ==
    /\ pc = "loaded"
    /\ loop.at = "returned"
    /\ loop.run < MaxRuns
    /\ pc' = "run"
    /\ loop' = [LoopStart EXCEPT !.run = loop.run + 1]
    /\ server_should_exit' = 0
    /\ exitStatus' = <<>>
    /\ clientStates' = init_clients
    /\ net' = <<>>
    /\ backlog' = << <<"HelloReq", "ListReq">> >>
    /\ UNCHANGED <<engineVars, engineHist, file, exists, hole, saved, server, errOut, outputs>>

\* the peers of the first run: the hello, then adds and removes
ServerScripts ==
    { <<"HelloReq", "AddReq">>,
      <<"HelloReq", "DelReq">>,
      <<"HelloReq", "AddReq", "AddReq">>,
      <<"HelloReq", "AddReq", "DelReq">>,
      <<"HelloReq", "DelReq", "AddReq">> }
ServerStores == {<<>>, <<LoadedRecord>>, <<LoadedRecord, FillerRecord>>}

InitServer ==
    /\ \E q \in ServerStores :
          /\ dbhdr = [create_db_header EXCEPT !.count = Len(q)]
          /\ employees = Norm(0, q)
          /\ file = FileOf(q)
          /\ exists = TRUE
          /\ hole = 0
    /\ backlog \in {<<s>> : s \in ServerScripts}
    /\ clientStates = init_clients
    /\ net = <<>>
    /\ server = "running"
    /\ server_should_exit = 0
    /\ loop = LoopStart
    /\ errOut = <<>>
    /\ outputs = <<>>
    /\ exitStatus = <<>>
    /\ inputs = {}
    /\ nOps = 0
    /\ refStack = NullBlock
    /\ lastOp = [op |-> "none"]
    /\ pc = "run"
    /\ saved = [count |-> 0, list |-> NullBlock]

\* the steps of the process itself
ServerStep ==
    \/ WhileTest
    \/ Poll
    \/ CheckExit
    \/ AcceptStep
    \/ ClientStep
    \/ ClientsDone
    \/ SaveAfterLoop

NextServer ==
    \/ ServerStep
    \/ Sigint
    \/ \E fd \in DOMAIN net : PeerClose(fd)
    \/ ValidateDbHeader
    \/ ReadEmployees
    \/ StartServer

SpecServer == InitServer /\ [][NextServer]_vars

\* handle_client_fsm is about to be called (line 570), or has not returned
HandlerPending == server = "running" /\ loop.at = "clients" /\ ReadySlots # {}

(* The process is scheduled: a statement it can execute is executed, poll  *)
(* returns after 100 ms at the latest, and a call of handle_client_fsm     *)
(* returns (recv has octets or the end of stream to return, the sends do   *)
(* not wait for ever).                                                     *)
SpecServerLive ==
    /\ SpecServer
    /\ WF_vars(WhileTest \/ Poll \/ CheckExit \/ AcceptStep \/ ClientsDone \/ SaveAfterLoop)
    /\ []<>~HandlerPending

----------------------------------------------------------------------------
(* Two peers at once.  Both connect; their octets arrive in any order and  *)
(* in pieces, either may close, and a recv may fail.                       *)

\* the scripts of the first and of the second peer
PeerPairs ==
    { << <<"HelloReq", "ListReq">>, <<"HelloReq", "AddReq">> >>,
      << <<"HelloReq", "ListReq">>, <<"Kind9">> >>,
      << <<"HelloReq", "DelReq">>, <<"HelloReq", "ListReq">> >>,
      << <<"HelloReq", "ListReq">>, <<"AddReq">> >> }

\* errno of a recv that returns -1: a signal was caught while it waited, or
\* the peer has reset the connection
RecvErrnos(conn) ==
    {"EINTR"} \cup (IF conn.peer = "closed" THEN {"ECONNRESET"} ELSE {})

(* handle_client_fsm when recv returns -1 (lines 1024-1037): perror and    *)
(* close_client_connection, whatever errno is.  EINTR means that           *)
(* handle_sigint has run (the handler is installed without SA_RESTART and  *)
(* no other signal is caught).                                             *)
RecvError(i) ==
    /\ server = "running"
    /\ clientStates[i].fd # -1
    /\ \E errno \in RecvErrnos(net[clientStates[i].fd]) :
       \E r \in {handle_client_fsm(CallContext(clientStates[i], NoFail), <<>>)} :
          /\ clientStates' = [clientStates EXCEPT ![i] = r.client]
          /\ net' = [net EXCEPT ![clientStates[i].fd].out = @ \o r.out,
                                ![clientStates[i].fd].log = @ \o r.log,
                                ![clientStates[i].fd].open = r.client.fd # -1]
          /\ lastOp' = [op |-> "recv", errno |-> errno, slot |-> i,
                        fd |-> clientStates[i].fd]
          /\ IF errno = "EINTR"
             THEN /\ server_should_exit' = handle_sigint(errOut).server_should_exit
                  /\ errOut' = handle_sigint(errOut).errOut
             ELSE UNCHANGED <<server_should_exit, errOut>>
    /\ UNCHANGED <<engineVars, inputs, nOps, refStack, fileVars, backlog, server,
                   loop, outputs, exitStatus>>

InitPeers ==
    /\ backlog \in PeerPairs
    /\ dbhdr = [create_db_header EXCEPT !.count = 1]
    /\ employees = Norm(0, <<LoadedRecord>>)
    /\ clientStates = init_clients
    /\ net = <<>>
    /\ server = "running"
    /\ NoServer
    /\ inputs = {}
    /\ nOps = 0
    /\ refStack = NullBlock
    /\ lastOp = [op |-> "none"]
    /\ file = <<>>
    /\ exists = TRUE
    /\ hole = 0
    /\ pc = "run"
    /\ saved = [count |-> 0, list |-> NullBlock]

NextPeers ==
    \/ Accept
    \/ \E i \in DOMAIN clientStates : HandleClient(i)
    \/ \E fd \in DOMAIN net : PeerClose(fd)
    \/ \E i \in DOMAIN clientStates : RecvError(i)

SpecPeers == InitPeers /\ [][NextPeers]_vars

----------------------------------------------------------------------------
(* A peer that stalls.  Two peers connect; one sends part of a frame and   *)
(* nothing more, the other sends its requests.  Neither closes.            *)
StalledScripts == {<<"ListReqPart">>, <<"HelloReq", "ListReqPart">>,
                   <<"HelloReq", "AddReqPart">>}
BusyScript == <<"HelloReq", "AddReq", "ListReq">>
StallPairs == {<<s, BusyScript>> : s \in StalledScripts}
                  \cup {<<BusyScript, s>> : s \in StalledScripts}

InitStall ==
    /\ backlog \in StallPairs
    /\ dbhdr = [create_db_header EXCEPT !.count = 1]
    /\ employees = Norm(0, <<LoadedRecord>>)
    /\ clientStates = init_clients
    /\ net = <<>>
    /\ server = "running"
    /\ NoServer
    /\ inputs = {}
    /\ nOps = 0
    /\ refStack = NullBlock
    /\ lastOp = [op |-> "none"]
    /\ file = <<>>
    /\ exists = TRUE
    /\ hole = 0
    /\ pc = "run"
    /\ saved = [count |-> 0, list |-> NullBlock]

\* the call of line 570 for some readable client
HandleReadable == \E i \in DOMAIN clientStates : HandleClient(i)

NextStall == Accept \/ HandleReadable

SpecStall == InitStall /\ [][NextStall]_vars

\* poll would report a client: HandleReadable is enabled
ReadablePending ==
    /\ server = "running"
    /\ \E i \in DOMAIN clientStates :
          clientStates[i].fd # -1 /\ Readable(net[clientStates[i].fd])

(* poll_loop goes round: a connection that waits is accepted, and a client *)
(* that is readable is handled in the iteration whose poll reports it, so  *)
(* that again and again no client is left readable.                        *)
SpecStallLive == SpecStall /\ WF_vars(Accept) /\ []<>~ReadablePending

----------------------------------------------------------------------------
(* The decoder at its limits: after the hello, a frame whose header and    *)
(* body fill the buffer, one that is two octets longer, one that is too    *)
(* long, an unknown kind, and the type and len fields of a header with     *)
(* nothing after them.                                                     *)
DecodeScripts ==
    {<<"HelloReq", m>> : m \in {"AddReqFill", "AddReqFill2", "TooLong", "Kind9",
                                "KindHuge", "AddReq", "ListReq",
                                "Kind9Fields", "ListReqFields", "AddReqFillPart",
                                "AddReqNoNul"}}
        \cup {<<"HelloReq", "AddReqNoNul", "KindDigit">>,
              <<"HelloReq", "AddReqNoNul", "ListReq">>}

InitDecode ==
    /\ backlog \in {<<s>> : s \in DecodeScripts}
    /\ dbhdr = create_db_header
    /\ employees = NullBlock
    /\ clientStates = init_clients
    /\ net = <<>>
    /\ server = "running"
    /\ NoServer
    /\ inputs = {}
    /\ nOps = 0
    /\ refStack = NullBlock
    /\ lastOp = [op |-> "none"]
    /\ file = <<>>
    /\ exists = TRUE
    /\ hole = 0
    /\ pc = "run"
    /\ saved = [count |-> 0, list |-> NullBlock]

SpecDecode == InitDecode /\ [][NextConn]_vars

----------------------------------------------------------------------------
(* main() with -n: create_db_file and create_db_header, then the rest of   *)
(* the run.  Two processes are started with -n on the same path; each is   *)
(* at its own statement (pc[p]) and has its own header in memory           *)
(* (dbhdr[p]).  The path names no file, or a file of an earlier run.       *)
Creators == {1, 2}

\* what a run adds to its empty store before it saves
CreateStores == {<<>>, <<LoadedRecord>>}

\* the file the path names when the runs start
CreateFiles == {FileOf(q) : q \in CreateStores}

\* create_db_file has returned a descriptor to this process
Created(p) == pc[p] \in {"fd", "created", "saved", "exited", "opened", "rejected"}

(* create_db_file, lines 20-30: open(filename, O_RDWR).  A file that is    *)
(* there is opened and closed (or cannot be opened), and the call returns  *)
(* STATUS_ERROR; a path that names nothing gives ENOENT, or another errno  *)
(* when the directory cannot be searched.                                  *)
OpenCheck(p) ==
    /\ pc[p] = "start"
    /\ IF exists
       THEN pc' = [pc EXCEPT ![p] = "failed"]
       ELSE \E errno \in {"ENOENT", "EACCES"} :
               pc' = [pc EXCEPT ![p] = IF errno = "ENOENT" THEN "enoent" ELSE "failed"]
    /\ UNCHANGED <<engineVars, engineHist, file, exists, hole, saved, connVars, mainVars>>

(* create_db_file, lines 33-39: open(filename, O_RDWR | O_CREAT, 0644).    *)
(* Without O_EXCL the call creates an empty file when the path names       *)
(* nothing and opens the file that is there otherwise; it may fail.        *)
OpenCreate(p) ==
    /\ pc[p] = "enoent"
    /\ \E r \in {"fd", "fails"} :
          IF r = "fd"
          THEN /\ pc' = [pc EXCEPT ![p] = "fd"]
               /\ exists' = TRUE
               /\ UNCHANGED hole
               /\ file' = IF exists THEN file ELSE <<>>
          ELSE /\ pc' = [pc EXCEPT ![p] = "failed"]
               /\ UNCHANGED <<file, exists, hole>>
    /\ UNCHANGED <<engineVars, engineHist, saved, connVars, mainVars>>

(* create_db_header: the header is allocated and filled in memory; nothing *)
(* is written to the descriptor.                                           *)
CreateDbHeader(p) ==
    /\ pc[p] = "fd"
    /\ \E mem \in {"ok", "calloc"} :
          IF mem = "ok"
          THEN /\ dbhdr' = [dbhdr EXCEPT ![p] = create_db_header]
               /\ pc' = [pc EXCEPT ![p] = "created"]
          ELSE /\ pc' = [pc EXCEPT ![p] = "failed"]
               /\ UNCHANGED dbhdr
    /\ UNCHANGED <<employees, engineHist, file, exists, hole, saved, connVars, mainVars>>

(* the rest of the run succeeds: the store is filled and output_file       *)
(* writes it through the descriptor                                        *)
SaveCreated(p) ==
    /\ pc[p] = "created"
    /\ \E q \in CreateStores :
       \E r \in {output_file(file, [dbhdr[p] EXCEPT !.count = Len(q)], Norm(0, q))} :
          /\ file' = r.file
          /\ hole' = IF r.status = STATUS_SUCCESS THEN 0 ELSE hole
          /\ saved' = [count |-> Len(q), list |-> Norm(0, q)]
    /\ pc' = [pc EXCEPT ![p] = "saved"]
    /\ UNCHANGED <<engineVars, engineHist, exists, connVars, mainVars>>

(* the rest of the run fails before output_file (add_employee or           *)
(* remove_employee returns an error): main returns STATUS_ERROR            *)
ExitUnsaved(p) ==
    /\ pc[p] = "created"
    /\ pc' = [pc EXCEPT ![p] = "exited"]
    /\ UNCHANGED <<engineVars, engineHist, file, exists, hole, saved, connVars, mainVars>>

(* the next run on the path, without -n: open_db_file finds the file and   *)
(* validate_db_header reads its header                                     *)
OpenAgain(p) ==
    /\ pc[p] \in {"saved", "exited"}
    /\ \E r \in {validate_db_header(file)} :
          IF r.status = STATUS_SUCCESS
          THEN /\ dbhdr' = [dbhdr EXCEPT ![p] = r.dbhdr]
               /\ pc' = [pc EXCEPT ![p] = "opened"]
          ELSE /\ pc' = [pc EXCEPT ![p] = "rejected"]
               /\ UNCHANGED dbhdr
    /\ UNCHANGED <<employees, engineHist, file, exists, hole, saved, connVars, mainVars>>

InitCreate ==
    /\ exists \in BOOLEAN
    /\ hole = 0
    /\ file \in (IF exists THEN CreateFiles ELSE {<<>>})
    /\ pc = [p \in Creators |-> "start"]
    /\ dbhdr = [p \in Creators |-> [count |-> 0]]
    /\ employees = NullBlock
    /\ saved = [count |-> 0, list |-> NullBlock]
    /\ inputs = {}
    /\ nOps = 0
    /\ refStack = NullBlock
    /\ lastOp = [op |-> "none"]
    /\ clientStates = init_clients
    /\ net = <<>>
    /\ backlog = <<>>
    /\ server = "running"
    /\ NoServer

NextCreate ==
    \E p \in Creators :
        \/ OpenCheck(p)
        \/ OpenCreate(p)
        \/ CreateDbHeader(p)
        \/ SaveCreated(p)
        \/ ExitUnsaved(p)
        \/ OpenAgain(p)

SpecCreate == InitCreate /\ [][NextCreate]_vars

----------------------------------------------------------------------------
(* C2: after every operation of a sequence of add and remove_last, the    *)
(* record list equals the reference stack (a successful add pushed, a      *)
(* successful remove_last popped, a failed operation did nothing) and      *)
(* header.count equals the length of the list.                             *)
C2_ListIsReferenceStack ==
    /\ RecordList(dbhdr, employees) = refStack
    /\ dbhdr.count = BlockLen(refStack)

(* C5: an add attempted at count = 65535 returns failure and leaves count  *)
(* and the records unchanged (count never wraps around).                   *)
C5_AddFailsAtMaxCount ==
    (lastOp.op = "add" /\ lastOp.countBefore = UINT16_MAX)
        => /\ lastOp.status = STATUS_ERROR
           /\ dbhdr.count = UINT16_MAX
           /\ RecordList(dbhdr, employees) = lastOp.listBefore

(* C6: add accepts an add-string only when it is exactly three non-empty   *)
(* fields separated by '-': no leading '-', no trailing '-', no two        *)
(* adjacent '-', and exactly two '-' in all.                               *)
ThreeNonEmptyFields(s) ==
    LET D == {i \in 1..Len(s) : s[i] = DASH}
    IN  /\ Len(s) > 0
        /\ Cardinality(D) = 2
        /\ 1 \notin D
        /\ Len(s) \notin D
        /\ \A i \in D : (i + 1) \notin D

C6_AcceptsOnlyThreeFields ==
    (lastOp.op = "add" /\ lastOp.status = STATUS_SUCCESS)
        => ThreeNonEmptyFields(lastOp.addstring)

(* C1: for every record list, output_file followed by validate_db_header   *)
(* and read_employees succeeds and gives back a count and a record list    *)
(* identical to the ones saved.                                            *)
C1_RoundTrip ==
    /\ pc # "failed"
    /\ pc = "opened" => dbhdr.count = saved.count
    /\ pc = "loaded" => /\ dbhdr.count = saved.count
                        /\ RecordList(dbhdr, employees) = saved.list
                        /\ BlockLen(employees) = saved.count

C1_Witness ==
    /\ pc = "loaded"
    /\ saved.count = MaxRecords
    /\ Slot(employees, 1).hours = <<258, 772>>
    /\ Len(Slot(employees, 2).name) = 3

----------------------------------------------------------------------------
(* What a connection's history says: the steps of the drain loop (log) and *)
(* the sends (out), as octets on the wire.                                 *)
WireType(bytes) == <<bytes[1] * 256 + bytes[2], bytes[3] * 256 + bytes[4]>>
WireLen(bytes) == bytes[5] * 256 + bytes[6]
WireBody(bytes) == SubSeq(bytes, PROTO_HDR_SIZE + 1, Len(bytes))
\* the send s is a whole frame of this kind with this body
IsFrame(s, type, body) ==
    /\ s.frame
    /\ WireType(s.bytes) = U32(type)
    /\ WireLen(s.bytes) = Len(body)
    /\ WireBody(s.bytes) = body
\* the step sent one Error frame and nothing else
OneError(e) == Len(e.sent) = 1 /\ IsFrame(e.sent[1], MSG_ERROR, <<>>)
Gone(e) == e.after \in {"STATE_DISCONNECTED", "KILLED"}
Dispatches(conn) == SelectSeq(conn.log, LAMBDA e : e.kind = "dispatch")
\* the messages of the script whose last octet has been read
Delivered(conn) ==
    {k \in 1..Len(conn.script) : EndOffset(conn.script, k) <= conn.received}
\* a header the server rejects before it looks at the body
Malformed(m) ==
    \/ m.type[1] # 0
    \/ m.type[2] >= MSG_MAX
    \/ PROTO_HDR_SIZE + m.len > CLIENT_BUFFER_SIZE
RECURSIVE AllSent(_)
AllSent(log) == IF log = <<>> THEN <<>> ELSE Head(log).sent \o AllSent(Tail(log))

(* C3: whatever the positions at which the reads split a connection's      *)
(* stream of well-formed messages, the frames dispatched are the messages  *)
(* of the stream, kind, length and body, in order, none lost, doubled or   *)
(* merged: the k-th dispatch is the k-th message, and while the connection *)
(* is open every message read to its end has been dispatched.  An AddReq   *)
(* of "A-B-1" dispatched in Ready is answered by one send, an AddResp of   *)
(* status 0.                                                               *)
C3_FramingRobust ==
    \A fd \in DOMAIN net :
        LET conn == net[fd]
            D == Dispatches(conn)
        IN  /\ Len(D) <= Len(conn.script)
            /\ \A k \in 1..Len(D) :
                   /\ D[k].type = MsgTable[conn.script[k]].msg.type
                   /\ D[k].len = MsgTable[conn.script[k]].msg.len
                   /\ D[k].body = MsgTable[conn.script[k]].msg.body
                   /\ (D[k].state = "STATE_READY_FOR_MSG" /\ conn.script[k] = "AddReq")
                          => /\ Len(D[k].sent) = 1
                             /\ IsFrame(D[k].sent[1], MSG_EMPLOYEE_ADD_RESP, <<0, 0, 0, 0>>)
            /\ conn.open => Len(D) = Cardinality(Delivered(conn))

\* a hello, then an AddReq read as its first HdrCut octets and then the rest
C3_Witness ==
    \E fd \in DOMAIN net :
        /\ net[fd].script = <<"HelloReq", "AddReq">>
        /\ net[fd].lastAt = StartOffset(net[fd].script, 2) + HdrCut
        /\ net[fd].received = EndOffset(net[fd].script, 2)
        /\ Len(Dispatches(net[fd])) = 2
        /\ net[fd].log[2].sent[1].res = "ok"
        /\ IsFrame(net[fd].log[2].sent[1], MSG_EMPLOYEE_ADD_RESP, <<0, 0, 0, 0>>)
        /\ dbhdr.count = 1

(* C4: when the first malformed header of a connection's stream (a kind of *)
(* MSG_MAX or more, or a length that with the header exceeds the buffer)   *)
(* is that of message j, no message from j on is dispatched; once the      *)
(* header has been read the connection is closed, by the one step that     *)
(* follows the dispatches of the messages before j; and the connection     *)
(* carries at most one Error frame.                                        *)
C4_MalformedCloses ==
    \A fd \in DOMAIN net :
        \A j \in 1..Len(net[fd].script) :
            (/\ Malformed(MsgTable[net[fd].script[j]].msg)
             /\ \A i \in 1..(j - 1) : ~Malformed(MsgTable[net[fd].script[i]].msg))
            => LET conn == net[fd]
               IN  /\ Len(Dispatches(conn)) <= j - 1
                   /\ Len(conn.log) <= j
                   /\ conn.received >= StartOffset(conn.script, j) + PROTO_HDR_SIZE
                          => ~conn.open
                   /\ \A k \in 1..Len(conn.log) :
                          conn.log[k].kind = "malformed"
                              => /\ k = Len(conn.log)
                                 /\ OneError(conn.log[k])
                                 /\ Gone(conn.log[k])
                   /\ Cardinality({k \in 1..Len(conn.out) :
                                      IsFrame(conn.out[k], MSG_ERROR, <<>>)}) <= 1

\* an oversize header after the hello, a ListReq behind it, all of it read
C4_Witness ==
    \E fd \in DOMAIN net :
        /\ net[fd].script = <<"HelloReq", "TooLong", "ListReq">>
        /\ net[fd].received = EndOffset(net[fd].script, 3)
        /\ Len(net[fd].log) = 2
        /\ net[fd].log[2].kind = "malformed"
        /\ net[fd].log[2].sent[1].res = "ok"
        /\ ~net[fd].open
        /\ server = "running"

(* C7: a step taken in STATE_CONNECTED on a HelloReq of length 2 whose     *)
(* proto is the server's version sends one HelloResp carrying that version *)
(* and, the send done, leaves the connection in STATE_READY_FOR_MSG; a step*)
(* on anything else (another kind, another length, another proto, a        *)
(* malformed header) sends one Error frame and leaves the connection       *)
(* closed.  A connection that is ready began with such a hello.            *)
IsHello(e) ==
    /\ e.kind = "dispatch"
    /\ e.type = U32(MSG_HELLO_REQ)
    /\ e.len = 2
    /\ e.body = BE16(PROTO_VER)

C7_AwaitingHello ==
    /\ \A fd \in DOMAIN net :
           \A k \in 1..Len(net[fd].log) :
               LET e == net[fd].log[k]
               IN  e.state = "STATE_CONNECTED"
                       => IF IsHello(e)
                          THEN /\ Len(e.sent) = 1
                               /\ IsFrame(e.sent[1], MSG_HELLO_RESP, BE16(PROTO_VER))
                               /\ IF e.sent[1].res = "ok"
                                  THEN e.after = "STATE_READY_FOR_MSG"
                                  ELSE Gone(e)
                          ELSE OneError(e) /\ Gone(e)
    /\ \A i \in DOMAIN clientStates :
           clientStates[i].state = "STATE_READY_FOR_MSG"
               => /\ clientStates[i].fd \in DOMAIN net
                  /\ net[clientStates[i].fd].log # <<>>
                  /\ net[clientStates[i].fd].log[1].state = "STATE_CONNECTED"
                  /\ IsHello(net[clientStates[i].fd].log[1])

\* one connection made ready by its hello, another closed by a HelloResp
C7_Witness ==
    \E fd \in DOMAIN net :
        /\ net[fd].script = <<"HelloReq", "HelloResp">>
        /\ Len(net[fd].log) = 2
        /\ net[fd].log[1].after = "STATE_READY_FOR_MSG"
        /\ IsFrame(net[fd].log[1].sent[1], MSG_HELLO_RESP, BE16(PROTO_VER))
        /\ net[fd].log[2].state = "STATE_READY_FOR_MSG"

(* C8 as stated: the server's protocol version is 1, a HelloReq of proto 1 *)
(* that opens a connection is answered by a HelloResp of proto 1 and the   *)
(* connection becomes ready.                                               *)
C8_VersionIsOne ==
    \A fd \in DOMAIN net :
        (/\ net[fd].log # <<>>
         /\ net[fd].log[1].kind = "dispatch"
         /\ net[fd].log[1].type = U32(MSG_HELLO_REQ)
         /\ net[fd].log[1].len = 2
         /\ net[fd].log[1].body = BE16(1))
        => /\ Len(net[fd].log[1].sent) = 1
           /\ IsFrame(net[fd].log[1].sent[1], MSG_HELLO_RESP, BE16(1))
           /\ net[fd].log[1].after = "STATE_READY_FOR_MSG"

(* C8: the server's protocol version is 100.  A HelloReq of proto 100 that *)
(* opens a connection is answered by a HelloResp of proto 100 and, the     *)
(* send done, the connection is ready; a HelloReq of proto 1 is answered   *)
(* by an Error frame and the connection is closed.                         *)
C8_VersionIsHundred ==
    \A fd \in DOMAIN net :
        (/\ net[fd].log # <<>>
         /\ net[fd].log[1].kind = "dispatch"
         /\ net[fd].log[1].type = U32(MSG_HELLO_REQ)
         /\ net[fd].log[1].len = 2)
        => LET e == net[fd].log[1]
           IN  /\ e.body = BE16(100)
                      => /\ Len(e.sent) = 1
                         /\ IsFrame(e.sent[1], MSG_HELLO_RESP, BE16(100))
                         /\ e.sent[1].res = "ok" => e.after = "STATE_READY_FOR_MSG"
               /\ e.body = BE16(1)
                      => /\ OneError(e)
                         /\ Gone(e)

\* a HelloReq of proto 100 has opened a connection and made it ready
C8_Witness ==
    \E fd \in DOMAIN net :
        /\ net[fd].script[1] = "HelloReq"
        /\ net[fd].log # <<>>
        /\ net[fd].log[1].body = BE16(100)
        /\ net[fd].log[1].sent[1].res = "ok"
        /\ IsFrame(net[fd].log[1].sent[1], MSG_HELLO_RESP, BE16(100))
        /\ net[fd].log[1].after = "STATE_READY_FOR_MSG"
        /\ net[fd].open

(* C9: a step taken in STATE_READY_FOR_MSG on a frame that is not a        *)
(* ListReq of length 0, an AddReq of length 1024 or a DelReq of length 0   *)
(* sends one Error frame and nothing else, leaves the connection closed,   *)
(* calls no engine operation and leaves the header and the records as      *)
(* they were.                                                              *)
FixedSize(e) ==
    \/ e.type = U32(MSG_EMPLOYEE_LIST_REQ) /\ e.len = 0
    \/ e.type = U32(MSG_EMPLOYEE_ADD_REQ) /\ e.len = 1024
    \/ e.type = U32(MSG_EMPLOYEE_DEL_REQ) /\ e.len = 0

C9_ReadyRejects ==
    \A fd \in DOMAIN net :
        \A k \in 1..Len(net[fd].log) :
            LET e == net[fd].log[k]
            IN  (e.state = "STATE_READY_FOR_MSG" /\ ~FixedSize(e))
                    => /\ OneError(e)
                       /\ Gone(e)
                       /\ e.op = "none"
                       /\ e.engineSame

\* a DelReq with a body of one octet, with a record in the store
C9_Witness ==
    \E fd \in DOMAIN net :
        /\ net[fd].script = <<"HelloReq", "AddReq", "DelReqLen1">>
        /\ Len(net[fd].log) = 3
        /\ net[fd].log[3].state = "STATE_READY_FOR_MSG"
        /\ net[fd].log[3].type = U32(MSG_EMPLOYEE_DEL_REQ)
        /\ net[fd].log[3].len = 1
        /\ net[fd].log[3].sent[1].res = "ok"
        /\ dbhdr.count = 1
        /\ server = "running"

(* C10: the server sends on a connection only in a step in which it has    *)
(* read input from that connection, and a new connection has been sent     *)
(* nothing; all that a connection has been sent is, step of the drain loop *)
(* by step, one response: a send of one frame (HelloResp, ListResp,        *)
(* AddResp, DelResp or Error), followed, for a ListResp only, by sends of  *)
(* at most the announced number of records, and of exactly that number     *)
(* when no send fails.                                                     *)
OneResponse(e) ==
    /\ e.sent # <<>>
    /\ e.sent[1].frame
    /\ WireType(e.sent[1].bytes) \in
           {U32(MSG_HELLO_RESP), U32(MSG_EMPLOYEE_LIST_RESP), U32(MSG_EMPLOYEE_ADD_RESP),
            U32(MSG_EMPLOYEE_DEL_RESP), U32(MSG_ERROR)}
    /\ Len(e.sent[1].bytes) = PROTO_HDR_SIZE + WireLen(e.sent[1].bytes)
    /\ \A i \in 2..Len(e.sent) :
           /\ ~e.sent[i].frame
           /\ Len(e.sent[i].bytes) = EMP_SIZE
           /\ WireType(e.sent[1].bytes) = U32(MSG_EMPLOYEE_LIST_RESP)
    /\ WireType(e.sent[1].bytes) = U32(MSG_EMPLOYEE_LIST_RESP)
           => LET count == WireBody(e.sent[1].bytes)[1] * 256 + WireBody(e.sent[1].bytes)[2]
              IN  /\ Len(e.sent) - 1 <= count
                  /\ (\A i \in 1..Len(e.sent) : e.sent[i].res = "ok")
                         => Len(e.sent) - 1 = count

Solicited(conn) ==
    /\ conn.out = AllSent(conn.log)
    /\ \A k \in 1..Len(conn.log) : OneResponse(conn.log[k])

C10_NoUnsolicited ==
    [][\A fd \in DOMAIN net' :
           /\ Solicited(net'[fd])
           /\ IF fd \in DOMAIN net
              THEN net'[fd].out # net[fd].out => net'[fd].received > net[fd].received
              ELSE net'[fd].out = <<>>]_vars

\* a hello, an add and a list: three responses, the last with one record
C10_Witness ==
    \E fd \in DOMAIN net :
        /\ net[fd].script = <<"HelloReq", "AddReq", "ListReq">>
        /\ Len(net[fd].log) = 3
        /\ Len(net[fd].log[3].sent) = 2
        /\ IsFrame(net[fd].log[3].sent[1], MSG_EMPLOYEE_LIST_RESP, <<0, 1>>)
        /\ \A k \in 1..Len(net[fd].out) : net[fd].out[k].res = "ok"
        /\ Len(net[fd].out) = 4

(* C11: a DelReq dispatched in Ready on an empty store, and an AddReq      *)
(* whose add-string the engine refuses ("A-B", "A-B-x"), are answered by   *)
(* one DelResp or AddResp of status -1; the count is as it was and, the    *)
(* send done, the connection is still in STATE_READY_FOR_MSG.  A ListReq   *)
(* that follows on the connection is answered by a ListResp of the same    *)
(* count (0 on an empty store).                                            *)
StatusMinusOne == <<255, 255, 255, 255>>
EngineRefuses(conn, k) ==
    \/ conn.script[k] = "DelReq" /\ Dispatches(conn)[k].count = 0
    \/ conn.script[k] \in RefusedAdds

C11_RefusedStaysReady ==
    \A fd \in DOMAIN net :
        LET conn == net[fd]
            D == Dispatches(conn)
        IN  \A k \in 1..Len(D) :
                (D[k].state = "STATE_READY_FOR_MSG" /\ EngineRefuses(conn, k))
                    => /\ Len(D[k].sent) = 1
                       /\ IsFrame(D[k].sent[1],
                                  IF conn.script[k] = "DelReq" THEN MSG_EMPLOYEE_DEL_RESP
                                  ELSE MSG_EMPLOYEE_ADD_RESP,
                                  StatusMinusOne)
                       /\ D[k].sent[1].res = "ok" => D[k].after = "STATE_READY_FOR_MSG"
                       /\ (k < Len(D) /\ conn.script[k + 1] = "ListReq")
                              => /\ D[k + 1].count = D[k].count
                                 /\ IsFrame(D[k + 1].sent[1], MSG_EMPLOYEE_LIST_RESP,
                                            BE16(D[k].count))

\* a DelReq on the empty store, then a ListReq, both answered
C11_Witness ==
    \E fd \in DOMAIN net :
        /\ net[fd].script = <<"HelloReq", "DelReq", "ListReq">>
        /\ Len(net[fd].log) = 3
        /\ net[fd].log[2].count = 0
        /\ IsFrame(net[fd].log[2].sent[1], MSG_EMPLOYEE_DEL_RESP, StatusMinusOne)
        /\ IsFrame(net[fd].log[3].sent[1], MSG_EMPLOYEE_LIST_RESP, <<0, 0>>)
        /\ \A k \in 1..Len(net[fd].out) : net[fd].out[k].res = "ok"
        /\ net[fd].open

(* What a ListResp shows: the count it announces and the records streamed  *)
(* behind it, decoded as the client of srvpoll.h decodes them.             *)
ListCount(e) == WireBody(e.sent[1].bytes)[1] * 256 + WireBody(e.sent[1].bytes)[2]
WireEmployee(bytes) == [EmpOfBytes(bytes) EXCEPT !.hours = Ntohl(@)]
Streamed(e) == [i \in 1..(Len(e.sent) - 1) |-> WireEmployee(e.sent[i + 1].bytes)]
AllOk(e) == \A i \in 1..Len(e.sent) : e.sent[i].res = "ok"
IsListResp(e) ==
    /\ e.kind = "dispatch"
    /\ e.sent # <<>>
    /\ e.sent[1].frame
    /\ WireType(e.sent[1].bytes) = U32(MSG_EMPLOYEE_LIST_RESP)
StatusZero(e, type) == e.kind = "dispatch" /\ Len(e.sent) = 1 /\ IsFrame(e.sent[1], type, <<0, 0, 0, 0>>)

(* C12: when an AddReq is answered with status 0 and the next request on   *)
(* the connection is a ListReq, the ListResp announces one record more     *)
(* than there were before the add and the last record streamed is the one  *)
(* added; when a DelReq on a non-empty store is answered with status 0,    *)
(* the ListResp announces one record fewer and streams the records there   *)
(* were before, without the last.                                          *)
C12_ListShowsAddAndDel ==
    \A fd \in DOMAIN net :
        LET D == Dispatches(net[fd])
        IN  \A k \in 1..(Len(D) - 1) :
                (IsListResp(D[k + 1]) /\ AllOk(D[k + 1]))
                    => /\ StatusZero(D[k], MSG_EMPLOYEE_ADD_RESP)
                              => /\ ListCount(D[k + 1]) = D[k].count + 1
                                 /\ Len(Streamed(D[k + 1])) = D[k].count + 1
                                 /\ Streamed(D[k + 1])[D[k].count + 1]
                                        = [name |-> <<65>>, address |-> <<66>>,
                                           hours |-> U32(1)]
                       /\ (StatusZero(D[k], MSG_EMPLOYEE_DEL_RESP) /\ D[k].count > 0)
                              => /\ ListCount(D[k + 1]) = D[k].count - 1
                                 /\ Len(Streamed(D[k + 1])) = D[k].count - 1
                                 /\ \A i \in 1..(D[k].count - 1) :
                                        Streamed(D[k + 1])[i] = Slot(D[k].list, i)

(* C13: a ListReq dispatched in Ready is answered by a ListResp header of  *)
(* len 2 with a body of two octets, the count of the store; behind it come *)
(* the records of the store, first to last, each of sizeof(struct          *)
(* employee_t) octets and none counted in len: as many as the count when   *)
(* no send fails, and never more.                                          *)
C13_ListRespAndRecords ==
    \A fd \in DOMAIN net :
        \A k \in 1..Len(net[fd].log) :
            LET e == net[fd].log[k]
            IN  (/\ e.kind = "dispatch"
                 /\ e.state = "STATE_READY_FOR_MSG"
                 /\ e.type = U32(MSG_EMPLOYEE_LIST_REQ)
                 /\ e.len = 0)
                => /\ IsListResp(e)
                   /\ WireLen(e.sent[1].bytes) = 2
                   /\ Len(e.sent[1].bytes) = PROTO_HDR_SIZE + 2
                   /\ ListCount(e) = e.count
                   /\ Len(e.sent) - 1 <= e.count
                   /\ AllOk(e) => Len(e.sent) - 1 = e.count
                   /\ \A i \in 1..(Len(e.sent) - 1) :
                          /\ ~e.sent[i + 1].frame
                          /\ Len(e.sent[i + 1].bytes) = EMP_SIZE
                          /\ Streamed(e)[i] = Slot(e.list, i)

\* the loaded record and then the added one, in that order
C13_Witness ==
    \E fd \in DOMAIN net :
        /\ net[fd].script = <<"HelloReq", "AddReq", "ListReq">>
        /\ Len(net[fd].log) = 3
        /\ AllOk(net[fd].log[3])
        /\ ListCount(net[fd].log[3]) = 2
        /\ Streamed(net[fd].log[3])
               = <<LoadedRecord, [name |-> <<65>>, address |-> <<66>>, hours |-> U32(1)]>>

(* C14: once the store is loaded, and after every add and remove on it,    *)
(* every record of the store has a name and an address whose last octet    *)
(* is NUL: at most NAME_SIZE - 1 octets before the terminator.             *)
C14_FieldsTerminated ==
    pc = "loaded"
        => \A i \in 1..dbhdr.count :
               /\ Len(Slot(employees, i).name) <= NAME_SIZE - 1
               /\ Len(Slot(employees, i).address) <= NAME_SIZE - 1

(* The value of a string of decimal digits as a uint32_t <<hi, lo>>, and   *)
(* whether it is above 2^32 - 1.                                           *)
RECURSIVE DecimalValue(_, _, _)
DecimalValue(h, i, acc) ==
    IF i > Len(h) \/ acc.over THEN acc
    ELSE LET lo == acc.val[2] * 10 + (h[i] - 48)
             hi == acc.val[1] * 10 + lo \div UINT16_MOD
         IN  DecimalValue(h, i + 1,
                          [val |-> <<hi % UINT16_MOD, lo % UINT16_MOD>>,
                           over |-> hi >= UINT16_MOD])
IsDecimal(h) == Len(h) > 0 /\ \A i \in 1..Len(h) : h[i] \in 48..57
InRange(h) == ~DecimalValue(h, 1, [val |-> <<0, 0>>, over |-> FALSE]).over
\* the hours field of "A-B-<hours>"
HoursField(s) == SubSeq(s, 5, Len(s))

(* C15: an add of "A-B-<hours>" succeeds only if the hours field is a      *)
(* string of decimal digits whose value is at most 2^32 - 1, and then the  *)
(* new record's hours is that value; with memory available it succeeds for *)
(* every such field.                                                       *)
C15_HoursDecimalInRange ==
    lastOp.op = "add"
        => LET h == HoursField(lastOp.addstring)
           IN  /\ lastOp.status = STATUS_SUCCESS
                      => /\ IsDecimal(h)
                         /\ InRange(h)
                         /\ Slot(employees, dbhdr.count).hours
                                = DecimalValue(h, 1, [val |-> <<0, 0>>, over |-> FALSE]).val
               /\ (lastOp.mem = "ok" /\ IsDecimal(h) /\ InRange(h))
                      => lastOp.status = STATUS_SUCCESS

\* C16: remove_employee on a store whose count is positive succeeds,
\* decrements count by one and leaves as record list the list of before
\* without its final record, the others unchanged and in order; on a store
\* whose count is 0 it fails, count stays 0 and the list stays as it was.
C16_RemoveLast ==
    lastOp.op = "remove"
        => IF lastOp.countBefore > 0
           THEN /\ lastOp.status = STATUS_SUCCESS
                /\ dbhdr.count = lastOp.countBefore - 1
                /\ RecordList(dbhdr, employees) = Take(lastOp.listBefore, lastOp.countBefore - 1)
           ELSE /\ lastOp.status = STATUS_ERROR
                /\ dbhdr.count = 0
                /\ RecordList(dbhdr, employees) = lastOp.listBefore

\* a remove of the second of two different records
C16_Witness ==
    /\ lastOp.op = "remove"
    /\ lastOp.countBefore = 2
    /\ lastOp.status = STATUS_SUCCESS
    /\ Slot(lastOp.listBefore, 1) # Slot(lastOp.listBefore, 2)
    /\ dbhdr.count = 1
    /\ Slot(employees, 1) = Slot(lastOp.listBefore, 1)

\* a remove refused on the empty store
C16_WitnessEmpty ==
    /\ lastOp.op = "remove"
    /\ lastOp.countBefore = 0
    /\ lastOp.status = STATUS_ERROR

(* C17: a step that sets the shutdown flag (the handler of SIGINT) changes *)
(* nothing else of the process: it writes nothing to stderr, and leaves    *)
(* the store, the file, the connections and the exit status as they were.  *)
C17_HandlerOnlySetsFlag ==
    [][(server_should_exit = 0 /\ server_should_exit' = 1)
          => /\ errOut' = errOut
             /\ UNCHANGED <<engineVars, fileVars, connVars, outputs, exitStatus>>]_vars

(* C18: in an iteration of poll_loop in which the shutdown flag was set    *)
(* when poll returned, no connection is accepted and no client is read or  *)
(* dispatched: the listen queue and the client table stay as they are      *)
(* until the loop has left the iteration.                                  *)
C18_FlagTestedAfterWait ==
    [][(loop.at \in {"check", "accept", "clients"} /\ loop.flagged)
          => (backlog' = backlog /\ clientStates' = clientStates)]_vars

\* what output_file was called with, and gave, in the current run
OutputsOfRun == {k \in DOMAIN outputs : outputs[k].run = loop.run}
SavedOnce ==
    /\ Cardinality(OutputsOfRun) = 1
    /\ \A k \in OutputsOfRun :
          /\ (exitStatus = <<0>>) <=> (outputs[k].status = STATUS_SUCCESS)
          /\ outputs[k].count = saved.count
          /\ outputs[k].list = saved.list

(* C19: once the shutdown flag is set, main() eventually returns, having   *)
(* called output_file exactly once in this run, on the store as it was     *)
(* when the loop exited, and its status is 0 exactly when output_file      *)
(* succeeded.                                                              *)
C19_ShutdownSaves ==
    (server_should_exit = 1) ~> (exitStatus # <<>> /\ SavedOnce)

\* the list dispatches of the connections of the current run
ListAnswers ==
    UNION {{net[fd].log[k] : k \in 1..Len(net[fd].log)} : fd \in DOMAIN net}

(* C20: after output_file has succeeded behind poll_loop the file          *)
(* validates and holds, in order, exactly the records the store had when   *)
(* the loop exited; and in the next run of the server on that file every   *)
(* ListReq (the store not having been changed in that run) is answered     *)
(* with the count and, when no send fails, the records of that store, in   *)
(* the same order.                                                         *)
C20_RestartListsSaved ==
    /\ (loop.at = "returned" /\ pc = "saved")
          => LET h == validate_db_header(file)
             IN  /\ h.status = STATUS_SUCCESS
                 /\ h.dbhdr.count = outputs[Len(outputs)].count
                 /\ read_employees(file, h.dbhdr).status = STATUS_SUCCESS
                 /\ read_employees(file, h.dbhdr).employees = outputs[Len(outputs)].list
    /\ (loop.at \notin {"off", "returned"} /\ loop.run > 1)
          => \A e \in ListAnswers :
                (/\ e.kind = "dispatch"
                 /\ e.state = "STATE_READY_FOR_MSG"
                 /\ e.type = U32(MSG_EMPLOYEE_LIST_REQ)
                 /\ e.len = 0)
                => LET was == outputs[Len(outputs)]
                   IN  /\ was.run = loop.run - 1
                       /\ was.status = STATUS_SUCCESS
                       /\ IsListResp(e)
                       /\ ListCount(e) = was.count
                       /\ \A i \in 1..(Len(e.sent) - 1) : Streamed(e)[i] = Slot(was.list, i)
                       /\ AllOk(e) => Len(e.sent) - 1 = was.count

\* the first run removed the last of two records and added one; the next
\* run lists two records, the loaded one and then the added one
C20_Witness ==
    /\ loop.run = 2
    /\ Len(outputs) = 1
    /\ outputs[1].count = 2
    /\ \E e \in ListAnswers :
          /\ IsListResp(e)
          /\ AllOk(e)
          /\ ListCount(e) = 2
          /\ Streamed(e) = <<LoadedRecord, [name |-> <<65>>, address |-> <<66>>, hours |-> U32(1)]>>

(* C21: while poll_loop runs, from the load of the store until the loop    *)
(* has exited, no step changes the octets of the file, whatever requests   *)
(* the peers send; output_file behind the loop is the only writer.         *)
C21_FileUntouchedWhileServing ==
    [][loop.at \in {"while", "poll", "check", "accept", "clients"} => file' = file]_vars

\* an AddReq has been answered and the store holds a record more than the
\* file, which is still the one the store was loaded from
C21_Witness ==
    /\ loop.at = "clients"
    /\ loop.run = 1
    /\ dbhdr.count = 1
    /\ file = FileOf(<<>>)
    /\ \E fd \in DOMAIN net :
          \E k \in 1..Len(net[fd].log) :
             StatusZero(net[fd].log[k], MSG_EMPLOYEE_ADD_RESP)

\* the slots in use, and the descriptors the process holds open
UsedSlots == {i \in DOMAIN clientStates : clientStates[i].fd # -1}
OpenFds == {f \in DOMAIN net : net[f].open}

(* C22: while the process runs, the open connections are those of the      *)
(* table, one slot each, so at most MAX_CLIENTS; and an accept made while  *)
(* every slot is in use leaves                                             *)
(* the table and every connection it holds as they were, and leaves the    *)
(* new descriptor closed with nothing sent on it.                          *)
C22_TableFull ==
    [][/\ Cardinality(OpenFds') <= MAX_CLIENTS
       /\ server' = "running"
             => /\ OpenFds' = {clientStates'[i].fd : i \in UsedSlots'}
                /\ Cardinality(UsedSlots') = Cardinality(OpenFds')
       /\ (backlog' # backlog /\ UsedSlots = DOMAIN clientStates)
             => /\ clientStates' = clientStates
                /\ \A f \in OpenFds : f \in DOMAIN net' /\ net'[f] = net[f]
                /\ \E f \in DOMAIN net' \ OpenFds :
                      /\ net'[f].script = Head(backlog)
                      /\ ~net'[f].open
                      /\ net'[f].out = <<>>
                      /\ net'[f].received = 0]_vars

\* a connection has been refused: the table is full and a descriptor that
\* is closed has received and sent nothing
C22_Witness ==
    /\ UsedSlots = DOMAIN clientStates
    /\ Cardinality(OpenFds) = MAX_CLIENTS
    /\ Len(backlog) <= 1
    /\ \E f \in DOMAIN net : ~net[f].open /\ net[f].received = 0 /\ net[f].out = <<>>

(* C23: when create has returned successfully (create_db_file and         *)
(* create_db_header), the file holds a header with count 0 and filesize    *)
(* 12: validate_db_header accepts it although output_file has not run.     *)
C23_CreatedFileOpens ==
    \A p \in Creators :
        pc[p] = "created"
            => /\ exists
               /\ validate_db_header(file).status = STATUS_SUCCESS
               /\ validate_db_header(file).dbhdr.count = 0
               /\ validate_db_header(file).dbhdr.filesize = U32(HDR_SIZE)

(* C24: create is exclusive.  A create that finds the path naming a file   *)
(* fails and leaves the file as it is, and of the creates racing on one    *)
(* path at most one gets a descriptor.                                     *)
C24_CreateIsExclusive ==
    [][/\ \A p \in Creators :
             (exists /\ pc[p] \in {"start", "enoent"} /\ pc'[p] # pc[p])
                 => pc'[p] = "failed" /\ file' = file
       /\ Cardinality({p \in Creators : Created(p)}') <= 1]_vars

\* the octet at offset i - 1 of the file, and its big-endian 16-bit words
Octet(i) == IF i <= Len(file) THEN file[i] ELSE 0
Word(i) == 256 * Octet(i) + Octet(i + 1)
StoredHeader ==
    [magic |-> <<Word(1), Word(3)>>, version |-> Word(5), count |-> Word(7),
     filesize |-> <<Word(9), Word(11)>>]
\* the file's length, Len(file) + hole * 2^32, is n
LengthIs(n) == hole = 0 /\ Len(file) = n

(* C25: the open rejects the file whenever it is shorter than the 12-octet *)
(* header, its magic is not 0x4C4C4144, its version is not the compiled-in *)
(* one, or its stored filesize is not its actual length; a file that       *)
(* passes the four checks is accepted and the header is returned with its  *)
(* fields in host order.                                                   *)
C25_OpenChecksHeader ==
    [][(pc = "saved" /\ pc' # pc)
          => /\ pc' = "failed"
                  <=> \/ (hole = 0 /\ Len(file) < HDR_SIZE)
                      \/ StoredHeader.magic # <<19532, 16708>>
                      \/ StoredHeader.version # PROTO_VER
                      \/ ~(hole = 0 /\ StoredHeader.filesize = U32(Len(file)))
             /\ pc' = "opened" => dbhdr' = StoredHeader]_vars

(* C27: startup (the open and the load) succeeds only for a file whose     *)
(* length is 12 + 516 * count for the count of its header.                 *)
C27_LoadedLengthFitsCount ==
    pc = "loaded" => LengthIs(HDR_SIZE + EMP_SIZE * dbhdr.count)

(* C26: after output_file has succeeded, the file's length and the        *)
(* filesize stored in its header both equal 12 + 516 * count, also when    *)
(* the file was longer before (the tail is cut off).                        *)
C26_SavedLength ==
    pc = "saved"
        => /\ LengthIs(HDR_SIZE + EMP_SIZE * saved.count)
           /\ StoredHeader.filesize = U32(HDR_SIZE + EMP_SIZE * saved.count)
           /\ StoredHeader.count = saved.count

C26_Witness ==
    /\ pc = "saved"
    /\ saved.count = 1
    /\ saved.before = HDR_SIZE + (MaxRecords + 1) * EMP_SIZE
    /\ Len(file) = HDR_SIZE + EMP_SIZE

\* this step is a call of handle_client_fsm on slot i whose recv returned -1
RecvFailed(i) == lastOp' # lastOp /\ lastOp'.op = "recv" /\ lastOp'.slot = i
\* this step is a call of handle_client_fsm on slot i whose recv returned 0
RecvZero(i) ==
    /\ clientStates[i].fd # -1
    /\ clientStates'[i] # clientStates[i]
    /\ lastOp' = lastOp
    /\ net'[clientStates[i].fd].received = net[clientStates[i].fd].received

(* C28: when the recv of a call of handle_client_fsm is interrupted by a   *)
(* signal the connection is not closed; when it returns 0 or fails with    *)
(* another error the connection is closed and no frame is sent.            *)
C28_InterruptedReadKeepsConnection ==
    [][\A i \in DOMAIN clientStates :
          /\ (RecvFailed(i) /\ lastOp'.errno = "EINTR")
                 => /\ clientStates'[i].fd = clientStates[i].fd
                    /\ net'[clientStates[i].fd].open
          /\ (RecvZero(i) \/ (RecvFailed(i) /\ lastOp'.errno # "EINTR"))
                 => /\ clientStates'[i].fd = -1
                    /\ clientStates'[i].state = "STATE_DISCONNECTED"
                    /\ ~net'[clientStates[i].fd].open
                    /\ net'[clientStates[i].fd].out = net[clientStates[i].fd].out]_vars

(* C29: a failure of one peer (it closes or resets, a send to it fails, it *)
(* sends a malformed frame) never ends the process: the step that closes   *)
(* its connection leaves the process running and the other connections,    *)
(* their slots and their streams, as they are.                             *)
C29_PeerFailureIsLocal ==
    [][/\ server' = "running"
       /\ \A i \in DOMAIN clientStates :
             (clientStates[i].fd # -1 /\ clientStates'[i].fd = -1)
                 => \A j \in DOMAIN clientStates \ {i} :
                        /\ clientStates'[j] = clientStates[j]
                        /\ clientStates[j].fd # -1
                               => net'[clientStates[j].fd] = net[clientStates[j].fd]]_vars

\* the connections this step has read from, dispatched for or sent to
Touched ==
    {fd \in DOMAIN net \cap DOMAIN net' :
        \/ net'[fd].received # net[fd].received
        \/ net'[fd].out # net[fd].out
        \/ net'[fd].log # net[fd].log}
\* the log entries this step has added for the connection
NewEntries(fd) ==
    {net'[fd].log[k] : k \in (Len(net[fd].log) + 1)..Len(net'[fd].log)}
\* a ListReq dispatched in Ready is answered in full: the header of the
\* ListResp and the count records, unless a send has failed
ListAnswered(e) ==
    (/\ e.kind = "dispatch"
     /\ e.state = "STATE_READY_FOR_MSG"
     /\ e.type = U32(MSG_EMPLOYEE_LIST_REQ)
     /\ e.len = 0
     /\ \A k \in 1..Len(e.sent) : e.sent[k].res = "ok")
        => /\ Len(e.sent) = 1 + e.count
           /\ IsFrame(e.sent[1], MSG_EMPLOYEE_LIST_RESP, BE16(e.count))

(* C30: requests execute one at a time and in order.  A step of the loop   *)
(* reads, dispatches and answers for one peer only; a request dispatched   *)
(* is answered within that step, a ListReq by the header and all the       *)
(* records of its ListResp; the store changes only by an add or a remove   *)
(* that peer has asked for; and the frames of a peer are dispatched in the *)
(* order of its stream.                                                    *)
C30_RequestsAtomicInOrder ==
    [][/\ Cardinality(Touched) <= 1
       /\ \A fd \in Touched : \A e \in NewEntries(fd) : ListAnswered(e)
       /\ (dbhdr' # dbhdr \/ employees' # employees)
              => \E fd \in Touched : \E e \in NewEntries(fd) : e.op \in {"add", "remove"}
       /\ \A fd \in DOMAIN net' :
              \A k \in 1..Len(Dispatches(net'[fd])) :
                  Dispatches(net'[fd])[k].type = MsgTable[net'[fd].script[k]].msg.type]_vars

\* the second peer's add was executed between the first peer's hello and
\* its list, which is answered with both records
C30_Witness ==
    \E a, b \in DOMAIN net :
        /\ a # b
        /\ net[a].script = <<"HelloReq", "ListReq">>
        /\ net[b].script = <<"HelloReq", "AddReq">>
        /\ Len(net[a].log) = 2 /\ Len(net[b].log) = 2
        /\ net[b].log[2].op = "add"
        /\ net[a].log[2].count = 2
        /\ Len(net[a].log[2].sent) = 3
        /\ \A k \in 1..3 : net[a].log[2].sent[k].res = "ok"
        /\ server = "running"

\* the client of slot i has sent part of a frame, all of it has been read,
\* and it sends nothing more
Stalled(i) ==
    /\ clientStates[i].fd # -1
    /\ net[clientStates[i].fd].script \in StalledScripts
    /\ net[clientStates[i].fd].received = Len(ScriptBytes(net[clientStates[i].fd].script))
\* every request of the busy peer has been dispatched and answered
BusyAnswered ==
    \E fd \in DOMAIN net :
        /\ net[fd].script = BusyScript
        /\ Len(Dispatches(net[fd])) = Len(BusyScript)
        /\ \A k \in 1..Len(net[fd].out) : net[fd].out[k].res = "ok"
        /\ Len(net[fd].out) = 5
        /\ net[fd].open

(* C31: a peer that has sent part of a frame and stalls keeps its slot and *)
(* does not hold up the loop: its connection is not read again and stays   *)
(* as it is, open, with the octets it has sent in the buffer, and the      *)
(* requests of the other peer are all dispatched and answered.             *)
C31_StalledPeerDoesNotBlock ==
    /\ [][\A i \in DOMAIN clientStates :
             Stalled(i) => /\ clientStates'[i] = clientStates[i]
                           /\ net'[clientStates[i].fd] = net[clientStates[i].fd]]_vars
    /\ <>[](BusyAnswered /\ \E i \in DOMAIN clientStates :
                                Stalled(i) /\ clientStates[i].buffer_pos > 0)

C31_Witness ==
    /\ BusyAnswered
    /\ \E i \in DOMAIN clientStates :
          /\ Stalled(i)
          /\ clientStates[i].state = "STATE_READY_FOR_MSG"
          /\ clientStates[i].buffer_pos = PROTO_HDR_SIZE + HdrCut
          /\ clientStates[i].msg_expected_len = PROTO_HDR_SIZE + MAX_EMPLOYEE_ADD_DATA

(* C32: the header is 6 octets.  A header is rejected as malformed        *)
(* exactly when its kind is MSG_MAX or more or 6 + len exceeds the buffer  *)
(* (so every body of at most 4096 - 6 octets is accepted); decoding starts *)
(* once 6 octets are buffered; and a frame is incomplete while fewer than  *)
(* 6 + len octets of it are buffered.                                      *)
C32_HeaderIsSixOctets ==
    /\ \A fd \in DOMAIN net :
           \A k \in 1..Len(net[fd].log) :
               net[fd].log[k].kind = "malformed"
                   <=> \/ net[fd].log[k].type[1] # 0
                       \/ net[fd].log[k].type[2] >= MSG_MAX
                       \/ 6 + net[fd].log[k].len > CLIENT_BUFFER_SIZE
    /\ \A i \in DOMAIN clientStates :
           (clientStates[i].fd # -1 /\ server = "running")
               => /\ clientStates[i].buffer_pos >= 6
                         => clientStates[i].msg_expected_len # 0
                  /\ clientStates[i].msg_expected_len # 0
                         => /\ clientStates[i].buffer_pos < clientStates[i].msg_expected_len
                            /\ clientStates[i].msg_expected_len
                                   = 6 + 256 * Mem(clientStates[i].buffer, 5, 6)[1]
                                       + Mem(clientStates[i].buffer, 5, 6)[2]

\* the octets of its stream that a connection has received and not yet consumed
Unconsumed(i) ==
    SubSeq(ScriptBytes(net[clientStates[i].fd].script),
           net[clientStates[i].fd].received - clientStates[i].buffer_pos + 1,
           net[clientStates[i].fd].received)

\* slot i is given to a connection in this step
Assigned(i) == clientStates[i].fd = -1 /\ clientStates'[i].fd # -1

(* C33: a slot is given to a new connection only when it is free and is    *)
(* never given away while its connection is open; the new connection       *)
(* starts in STATE_CONNECTED with buffer_pos = 0 and msg_expected_len = 0  *)
(* and nothing received; and the octets an open connection has buffered    *)
(* are always octets of its own stream, whoever held the slot before.      *)
C33_SlotNotReusedMidSession ==
    /\ [][\A i \in DOMAIN clientStates :
             /\ clientStates[i].fd # -1
                    => clientStates'[i].fd \in {clientStates[i].fd, -1}
             /\ Assigned(i)
                    => /\ clientStates'[i].state = "STATE_CONNECTED"
                       /\ clientStates'[i].buffer_pos = 0
                       /\ clientStates'[i].msg_expected_len = 0
                       /\ net'[clientStates'[i].fd].received = 0
                       /\ \A j \in DOMAIN clientStates : j # i => ~Assigned(j)]_vars
    /\ [](server = "running"
             => \A i \in DOMAIN clientStates :
                    clientStates[i].fd # -1
                        => /\ \A j \in DOMAIN clientStates :
                                  clientStates[j].fd = clientStates[i].fd => j = i
                           /\ Mem(clientStates[i].buffer, 1, clientStates[i].buffer_pos)
                                  = Unconsumed(i))

\* the second peer sits in the slot the first one has left, before its first
\* read, with octets of the first still in the array
C33_Witness ==
    /\ backlog = <<>>
    /\ DOMAIN net = {LISTEN_FD + 1}
    /\ clientStates[0].fd = LISTEN_FD + 1
    /\ clientStates[0].state = "STATE_CONNECTED"
    /\ clientStates[0].buffer # <<>>
    /\ net[LISTEN_FD + 1].received = 0

\* the messages of a connection's stream whose last octet this step reads
Completed(fd) ==
    {k \in 1..Len(net[fd].script) :
        /\ net[fd].received < EndOffset(net[fd].script, k)
        /\ EndOffset(net[fd].script, k) <= net'[fd].received}
\* the dispatches this step adds to the connection's history
NewDispatches(fd) ==
    SelectSeq(SubSeq(net'[fd].log, Len(net[fd].log) + 1, Len(net'[fd].log)),
              LAMBDA e : e.kind = "dispatch")
\* the stream offset up to which whole messages have been read after this step
ConsumedAfter(fd) ==
    IF Delivered(net'[fd]) = {} THEN 0
    ELSE EndOffset(net'[fd].script, Cardinality(Delivered(net'[fd])))

(* C34: a read that completes k messages of a connection's stream          *)
(* dispatches all k in that call of the handler, in the order of the       *)
(* stream; fewer only if the call closes the connection, and then no      *)
(* dispatch but the last has closed it and the last step of the loop is    *)
(* the one that did.  When the call returns with the                       *)
(* connection open, the octets read beyond the last complete message are   *)
(* at the front of the buffer in stream order, buffer_pos is their number, *)
(* and msg_expected_len is 0 unless they hold the header of the next       *)
(* message.                                                                *)
C34_DrainsAllFrames ==
    [][\A fd \in DOMAIN net :
          (net[fd].open /\ fd \in DOMAIN net' /\ net'[fd].received > net[fd].received
              /\ net'[fd].script = net[fd].script)
          => /\ \A j \in 1..Len(NewDispatches(fd)) :
                    /\ Cardinality(Delivered(net[fd])) + j \in Completed(fd)
                    /\ NewDispatches(fd)[j].type
                           = MsgTable[net[fd].script[Cardinality(Delivered(net[fd])) + j]].msg.type
                    /\ NewDispatches(fd)[j].body
                           = MsgTable[net[fd].script[Cardinality(Delivered(net[fd])) + j]].msg.body
                    /\ j < Len(NewDispatches(fd)) => ~Gone(NewDispatches(fd)[j])
             /\ net'[fd].open
                    => /\ Len(NewDispatches(fd)) = Cardinality(Completed(fd))
                       /\ \A i \in DOMAIN clientStates :
                              clientStates'[i].fd = fd
                                  => /\ clientStates'[i].buffer_pos
                                            = net'[fd].received - ConsumedAfter(fd)
                                     /\ Mem(clientStates'[i].buffer, 1,
                                            clientStates'[i].buffer_pos)
                                            = SubSeq(ScriptBytes(net[fd].script),
                                                     ConsumedAfter(fd) + 1, net'[fd].received)
                                     /\ clientStates'[i].buffer_pos < PROTO_HDR_SIZE
                                            => clientStates'[i].msg_expected_len = 0
             /\ (~net'[fd].open /\ net'[fd].log # net[fd].log)
                    => Gone(net'[fd].log[Len(net'[fd].log)])]_vars

\* one read has brought the hello, a request and HdrCut octets of a third
\* message: two dispatches, and the HdrCut octets are what the buffer holds
C34_Witness ==
    \E fd \in DOMAIN net :
        /\ Len(net[fd].script) = 3
        /\ net[fd].open
        /\ net[fd].lastAt = 0
        /\ net[fd].received = StartOffset(net[fd].script, 3) + HdrCut
        /\ Len(Dispatches(net[fd])) = 2
        /\ \E i \in DOMAIN clientStates :
               /\ clientStates[i].fd = fd
               /\ clientStates[i].buffer_pos = HdrCut
               /\ clientStates[i].msg_expected_len = 0

\* the step used the store: it ran add, remove or list, changed the header
\* or the records, or sent something other than one frame of hello or error
UsedStore(e) ==
    \/ e.op # "none"
    \/ ~e.engineSame
    \/ \E n \in 1..Len(e.sent) :
           ~(e.sent[n].frame /\ WireType(e.sent[n].bytes)
                                    \in {U32(MSG_HELLO_RESP), U32(MSG_ERROR)})

(* C35: a step of the drain loop uses the store (runs add_employee,        *)
(* remove_employee or the list loop, changes count or the records, or      *)
(* sends a list or status frame) only when it dispatches a message of a    *)
(* connection in STATE_READY_FOR_MSG, and an earlier step of that same     *)
(* connection was the dispatch of a hello that left it ready.              *)
C35_StoreOnlyForReady ==
    \A fd \in DOMAIN net :
        \A k \in 1..Len(net[fd].log) :
            UsedStore(net[fd].log[k])
                => /\ net[fd].log[k].kind = "dispatch"
                   /\ net[fd].log[k].state = "STATE_READY_FOR_MSG"
                   /\ \E h \in 1..(k - 1) :
                          /\ IsHello(net[fd].log[h])
                          /\ net[fd].log[h].state = "STATE_CONNECTED"
                          /\ net[fd].log[h].after = "STATE_READY_FOR_MSG"

\* the first peer has left; the next one, in the same slot and with the same
\* descriptor, sends an AddReq without a hello: an error, the store as it was
C35_Witness ==
    /\ backlog = <<>>
    /\ DOMAIN net = {LISTEN_FD + 1}
    /\ net[LISTEN_FD + 1].script = <<"AddReq">>
    /\ Len(net[LISTEN_FD + 1].log) = 1
    /\ net[LISTEN_FD + 1].log[1].state = "STATE_CONNECTED"
    /\ ~UsedStore(net[LISTEN_FD + 1].log[1])
    /\ OneError(net[LISTEN_FD + 1].log[1])
    /\ clientStates[0].state = "STATE_DISCONNECTED"
    /\ dbhdr.count = 1

(* C36: after an add_employee that returned STATUS_ERROR (an add-string    *)
(* that is not three fields, hours that are not a number or exceed         *)
(* UINT_MAX, a failed strdup or realloc), count and the first count        *)
(* records are what they were before the call.                             *)
C36_FailedAddChangesNothing ==
    (lastOp.op = "add" /\ lastOp.status = STATUS_ERROR)
        => /\ dbhdr.count = lastOp.countBefore
           /\ RecordList(dbhdr, employees) = lastOp.listBefore

\* an add on a store of one record failed at the hours, after the array had
\* grown to two slots and the second had its name and address
C36_Witness ==
    /\ lastOp.op = "add"
    /\ lastOp.status = STATUS_ERROR
    /\ lastOp.mem = "ok"
    /\ lastOp.countBefore = 1
    /\ dbhdr.count = 1
    /\ BlockLen(employees) = 2
    /\ Slot(employees, 2).name = <<65>>
    /\ Slot(employees, 2).address = <<66>>
    /\ Slot(employees, 2).hours = UninitHours

(* C37: for every open connection buffer_pos is between 0 and the size of *)
(* the buffer, msg_expected_len is 0 or between the size of a header and   *)
(* the size of the buffer, and an incomplete message never fills the       *)
(* buffer: buffer_pos is below msg_expected_len when that is set, and in   *)
(* any case below the size of the buffer, so that every recv is given room *)
(* for at least one octet.                                                 *)
C37_BufferNeverFull ==
    \A i \in DOMAIN clientStates :
        (clientStates[i].fd # -1 /\ server = "running")
            => /\ 0 <= clientStates[i].buffer_pos
               /\ clientStates[i].buffer_pos <= CLIENT_BUFFER_SIZE
               /\ \/ clientStates[i].msg_expected_len = 0
                  \/ /\ PROTO_HDR_SIZE <= clientStates[i].msg_expected_len
                     /\ clientStates[i].msg_expected_len <= CLIENT_BUFFER_SIZE
                     /\ clientStates[i].buffer_pos < clientStates[i].msg_expected_len
               /\ clientStates[i].buffer_pos < CLIENT_BUFFER_SIZE
               /\ Len(clientStates[i].buffer) <= CLIENT_BUFFER_SIZE
               /\ \A chunk \in RecvChunks(clientStates[i], net[clientStates[i].fd]) :
                      Len(chunk) + clientStates[i].buffer_pos <= CLIENT_BUFFER_SIZE

\* a message as long as the buffer, all of it buffered but its last octet
C37_Witness ==
    \E i \in DOMAIN clientStates :
        /\ clientStates[i].fd # -1
        /\ clientStates[i].state = "STATE_READY_FOR_MSG"
        /\ clientStates[i].msg_expected_len = CLIENT_BUFFER_SIZE
        /\ clientStates[i].buffer_pos = CLIENT_BUFFER_SIZE - 1

\* the step closed the connection in a handler that came back to the loop
ClosedInHandler(e) ==
    e.kind = "dispatch" /\ e.after = "STATE_DISCONNECTED" /\ ~e.returned

(* C38: a step of the drain loop that closes the connection is the last    *)
(* step of that connection: nothing is dispatched after it, from the       *)
(* octets left in the buffer or otherwise.  Whenever the loop goes on to   *)
(* the compaction after a dispatch, buffer_pos - msg_expected_len is not   *)
(* negative, and it is 0 - 0 when the handler has closed the connection.   *)
C38_NothingAfterClose ==
    \A fd \in DOMAIN net :
        \A k \in 1..Len(net[fd].log) :
            /\ Gone(net[fd].log[k]) => k = Len(net[fd].log)
            /\ (net[fd].log[k].kind = "dispatch" /\ ~net[fd].log[k].returned
                    /\ net[fd].log[k].after # "KILLED")
                   => /\ net[fd].log[k].pos - net[fd].log[k].expected >= 0
                      /\ ClosedInHandler(net[fd].log[k])
                             => net[fd].log[k].pos = 0 /\ net[fd].log[k].expected = 0

\* one read brings the hello, an AddReq of the wrong length and a ListReq; the
\* add handler replies with an error and closes, the ListReq is not dispatched
C38_Witness ==
    \E fd \in DOMAIN net :
        /\ net[fd].script = <<"HelloReq", "AddReqShort", "ListReq">>
        /\ net[fd].lastAt = 0
        /\ net[fd].received = EndOffset(net[fd].script, 3)
        /\ Len(net[fd].log) = 2
        /\ ClosedInHandler(net[fd].log[2])
        /\ net[fd].log[2].state = "STATE_READY_FOR_MSG"
        /\ ~net[fd].open

\* what add_employee makes of an empty store and the add-string of a body:
\* the body's octets up to its first NUL, all of them if it has none
AddOfBody(body) == add_employee(create_db_header, NullBlock, CString(body, 1), "ok")

(* C39: the add-string, the record and the status of an AddReq are a       *)
(* function of the frame's 1024 body octets alone.  On a store that was    *)
(* empty, once a connection's AddReq has been dispatched in                *)
(* STATE_READY_FOR_MSG, count and the records are what add_employee gives  *)
(* for the body's octets up to the first NUL (all 1024 if there is none),  *)
(* and the AddResp carries that status, whatever follows the frame in the  *)
(* buffer.                                                                 *)
C39_AddDependsOnBodyOnly ==
    \A fd \in DOMAIN net :
        \A k \in 1..Len(net[fd].log) :
            (/\ net[fd].log[k].kind = "dispatch"
             /\ net[fd].log[k].state = "STATE_READY_FOR_MSG"
             /\ net[fd].log[k].type = U32(MSG_EMPLOYEE_ADD_REQ)
             /\ net[fd].log[k].len = MAX_EMPLOYEE_ADD_DATA)
                => /\ dbhdr.count = AddOfBody(net[fd].log[k].body).dbhdr.count
                   /\ RecordList(dbhdr, employees)
                          = RecordList(AddOfBody(net[fd].log[k].body).dbhdr,
                                       AddOfBody(net[fd].log[k].body).employees)
                   /\ IsFrame(net[fd].log[k].sent[1], MSG_EMPLOYEE_ADD_RESP, <<0, 0, 0, 0>>)
                          <=> AddOfBody(net[fd].log[k].body).status = STATUS_SUCCESS

====
